---- MODULE Spec2Model ----
(***************************************************************************)
(* Log Explorer MCP: the token-based template clusterer (clustering.js)    *)
(* and the session cache with its tool handlers (server.js).               *)
(*                                                                         *)
(* A string is a sequence of characters; a character is a one-element      *)
(* string.  Similarities are exact fractions <<num, den>>: every JS        *)
(* comparison of a similarity is between quotients of small integers and   *)
(* decimal literals, where IEEE division agrees with the exact fraction.   *)
(***************************************************************************)
EXTENDS Integers, Sequences, FiniteSets, TLC

(***************************************************************************)
(* Characters and strings                                                  *)
(***************************************************************************)
NUL == "NUL"
SPACE == " "
WordChars == {"a", "b", "c", "d", "e", "f", "g", "h", "i", "j", "l", "m",
              "n", "o", "q", "r", "s", "z", "T", "U",
              "0", "1", "2", "3", "4", "5",
              "6", "7", "8", "9", "_"}

IsSpace(c) == c = SPACE
IsWord(c) == c \in WordChars
IsOther(c) == ~IsSpace(c) /\ ~IsWord(c)

SameClass(c, d) ==
    \/ IsSpace(c) /\ IsSpace(d)
    \/ IsWord(c) /\ IsWord(d)
    \/ IsOther(c) /\ IsOther(d)

WILD == <<".", "*">>

RECURSIVE Join(_, _)
Join(parts, sep) ==
    IF Len(parts) = 0 THEN <<>>
    ELSE IF Len(parts) = 1 THEN parts[1]
    ELSE parts[1] \o sep \o Join(Tail(parts), sep)

RECURSIVE SumLen(_)
SumLen(parts) ==
    IF Len(parts) = 0 THEN 0 ELSE Len(parts[1]) + SumLen(Tail(parts))

StripNul(s) == SelectSeq(s, LAMBDA c : c # NUL)

Trim(s) ==
    LET keep == {i \in 1..Len(s) : ~IsSpace(s[i])}
    IN  IF keep = {} THEN <<>>
        ELSE SubSeq(s, CHOOSE i \in keep : \A k \in keep : i <= k,
                       CHOOSE i \in keep : \A k \in keep : i >= k)

IsWildAt(s, i) == i + 1 <= Len(s) /\ s[i] = "." /\ s[i + 1] = "*"

RECURSIVE CollapseFrom(_, _, _)
CollapseFrom(s, i, inRun) ==
    IF i > Len(s) THEN <<>>
    ELSE IF IsWildAt(s, i)
         THEN (IF inRun THEN <<>> ELSE WILD) \o CollapseFrom(s, i + 2, TRUE)
         ELSE <<s[i]>> \o CollapseFrom(s, i + 1, FALSE)

CollapseWild(s) == CollapseFrom(s, 1, FALSE)

(***************************************************************************)
(* tokenize: maximal runs of one character class                           *)
(***************************************************************************)
RECURSIVE RunEnd(_, _)
RunEnd(s, i) ==
    IF i < Len(s) /\ SameClass(s[i], s[i + 1]) THEN RunEnd(s, i + 1) ELSE i

TokenOf(text) ==
    [text |-> text,
     isDelim |-> \/ \A k \in 1..Len(text) : IsSpace(text[k])
                 \/ \A k \in 1..Len(text) : IsOther(text[k])]

RECURSIVE TokenizeFrom(_, _)
TokenizeFrom(s, i) ==
    IF i > Len(s) THEN <<>>
    ELSE LET j == RunEnd(s, i)
         IN  <<TokenOf(SubSeq(s, i, j))>> \o TokenizeFrom(s, j + 1)

\* The expression without its group for whitespace.
tokenizeWords(str) ==
    SelectSeq(TokenizeFrom(str, 1), LAMBDA t : ~IsSpace(t.text[1]))

tokenize(str) == TokenizeFrom(str, 1)

TokensText(tokens) == Join([k \in 1..Len(tokens) |-> tokens[k].text], <<>>)

(***************************************************************************)
(* findMatchingTokenBlocks                                                 *)
(***************************************************************************)
\* Array.prototype.sort is stable: x is inserted after every element that it
\* does not strictly precede.
RECURSIVE InsertByScore(_, _)
InsertByScore(x, sorted) ==
    IF Len(sorted) = 0 THEN <<x>>
    ELSE IF x.score > sorted[1].score THEN <<x>> \o sorted
    ELSE <<sorted[1]>> \o InsertByScore(x, Tail(sorted))

RECURSIVE SortByScoreFrom(_, _, _)
SortByScoreFrom(seq, i, acc) ==
    IF i > Len(seq) THEN acc
    ELSE SortByScoreFrom(seq, i + 1, InsertByScore(seq[i], acc))

SortByScore(seq) == SortByScoreFrom(seq, 1, <<>>)

RECURSIVE InsertByAStart(_, _)
InsertByAStart(x, sorted) ==
    IF Len(sorted) = 0 THEN <<x>>
    ELSE IF x.aStart < sorted[1].aStart THEN <<x>> \o sorted
    ELSE <<sorted[1]>> \o InsertByAStart(x, Tail(sorted))

RECURSIVE SortByAStartFrom(_, _, _)
SortByAStartFrom(seq, i, acc) ==
    IF i > Len(seq) THEN acc
    ELSE SortByAStartFrom(seq, i + 1, InsertByAStart(seq[i], acc))

SortByAStart(seq) == SortByAStartFrom(seq, 1, <<>>)

Significant(t) == ~t.isDelim /\ Len(t.text) > 1

Candidates(tokensA, tokensB) ==
    LET m == Len(tokensA)
        n == Len(tokensB)
        dp[i \in 0..m, j \in 0..n] ==
            IF i = 0 \/ j = 0 THEN 0
            ELSE IF tokensA[i].text = tokensB[j].text THEN dp[i - 1, j - 1] + 1
            ELSE 0
        cell(k) ==
            LET i == ((k - 1) \div n) + 1
                j == ((k - 1) % n) + 1
                len == dp[i, j]
            IN  [aStart |-> i - len, aEnd |-> i, bStart |-> j - len, bEnd |-> j,
                 len |-> len,
                 score |-> len + Cardinality({p \in (i - len + 1)..i :
                                                ~tokensA[p].isDelim})]
        all == [k \in 1..(m * n) |-> cell(k)]
        hasSignificant(c) ==
            /\ c.len > 0
            /\ \E p \in (c.aStart + 1)..c.aEnd : Significant(tokensA[p])
    IN  SelectSeq(all, hasSignificant)

\* The sweep that looks at usedA only.
RECURSIVE SweepUsedA(_, _, _, _, _)
SweepUsedA(cands, k, usedA, usedB, blocks) ==
    IF k > Len(cands) THEN blocks
    ELSE LET cand == cands[k]
             rangeA == cand.aStart..(cand.aEnd - 1)
         IN  IF rangeA \cap usedA # {}
             THEN SweepUsedA(cands, k + 1, usedA, usedB, blocks)
             ELSE SweepUsedA(cands, k + 1, usedA \cup rangeA, usedB,
                             Append(blocks, cand))

RECURSIVE Sweep(_, _, _, _, _)
Sweep(cands, k, usedA, usedB, blocks) ==
    IF k > Len(cands) THEN blocks
    ELSE LET cand == cands[k]
             rangeA == cand.aStart..(cand.aEnd - 1)
             rangeB == cand.bStart..(cand.bEnd - 1)
             overlap == (rangeA \cap usedA # {}) \/ (rangeB \cap usedB # {})
         IN  IF overlap THEN Sweep(cands, k + 1, usedA, usedB, blocks)
             ELSE Sweep(cands, k + 1, usedA \cup rangeA, usedB \cup rangeB,
                        Append(blocks, cand))

findMatchingTokenBlocks(tokensA, tokensB) ==
    SortByAStart(Sweep(SortByScore(Candidates(tokensA, tokensB)), 1, {}, {}, <<>>))

BlockText(tokensA, block) ==
    TokensText(SubSeq(tokensA, block.aStart + 1, block.aEnd))

(***************************************************************************)
(* extractTemplate, mergeWithTemplate                                      *)
(***************************************************************************)
NoMatch == [template |-> WILD, similarity |-> <<0, 1>>, staticParts |-> <<>>]

RECURSIVE ExtractParts(_, _, _, _)
ExtractParts(tokensA, blocks, k, lastEnd) ==
    IF k > Len(blocks)
    THEN (IF lastEnd < Len(tokensA) THEN <<WILD>> ELSE <<>>)
    ELSE LET block == blocks[k]
         IN  (IF block.aStart > lastEnd THEN <<WILD>> ELSE <<>>)
             \o <<BlockText(tokensA, block)>>
             \o ExtractParts(tokensA, blocks, k + 1, block.aEnd)

\* similarity over the length of a alone.
ExtractResultOverA(a, b, tokensA, blocks, staticParts) ==
    IF Len(blocks) = 0 THEN NoMatch
    ELSE [template |-> Join(ExtractParts(tokensA, blocks, 1, 0), <<>>),
          similarity |-> <<SumLen(staticParts), Len(a)>>,
          staticParts |-> staticParts]

ExtractResult(a, b, tokensA, blocks, staticParts) ==
    IF Len(blocks) = 0 THEN NoMatch
    ELSE [template |-> Join(ExtractParts(tokensA, blocks, 1, 0), <<>>),
          similarity |-> <<2 * SumLen(staticParts), Len(a) + Len(b)>>,
          staticParts |-> staticParts]

ExtractBlocks(a, b, tokensA, blocks) ==
    ExtractResult(a, b, tokensA, blocks,
                  [k \in 1..Len(blocks) |-> BlockText(tokensA, blocks[k])])

ExtractTokens(a, b, tokensA, tokensB) ==
    ExtractBlocks(a, b, tokensA, findMatchingTokenBlocks(tokensA, tokensB))

extractTemplate(a, b) == ExtractTokens(a, b, tokenize(a), tokenize(b))

RECURSIVE MergeParts(_, _, _, _)
MergeParts(tokensA, blocks, k, lastEnd) ==
    IF k > Len(blocks)
    THEN (IF lastEnd < Len(tokensA) THEN <<WILD>> ELSE <<>>)
    ELSE LET block == blocks[k]
             matchedText == StripNul(BlockText(tokensA, block))
         IN  (IF block.aStart > lastEnd THEN <<WILD>> ELSE <<>>)
             \o (IF Len(Trim(matchedText)) > 0 THEN <<matchedText>> ELSE <<WILD>>)
             \o MergeParts(tokensA, blocks, k + 1, block.aEnd)

MergeStatic(tokensA, blocks) ==
    SelectSeq([k \in 1..Len(blocks) |-> StripNul(BlockText(tokensA, blocks[k]))],
              LAMBDA t : Len(Trim(t)) > 0)

MergeResult(tmpl, newStr, tokensA, blocks, newStaticParts) ==
    IF Len(blocks) = 0 THEN NoMatch
    ELSE [template |-> CollapseWild(Join(MergeParts(tokensA, blocks, 1, 0), <<>>)),
          similarity |-> <<2 * SumLen(newStaticParts),
                           Len(tmpl.template) + Len(newStr)>>,
          staticParts |-> newStaticParts]

MergeBlocks(tmpl, newStr, tokensA, blocks) ==
    MergeResult(tmpl, newStr, tokensA, blocks, MergeStatic(tokensA, blocks))

MergeTokens(tmpl, newStr, tokensA, tokensB) ==
    MergeBlocks(tmpl, newStr, tokensA, findMatchingTokenBlocks(tokensA, tokensB))

\* pseudoStr joined without the NUL.
mergeWithJoined(tmpl, newStr) ==
    MergeTokens(tmpl, newStr, tokenize(Join(tmpl.staticParts, <<>>)),
                tokenize(newStr))

\* pseudoStr is the static parts joined by NUL.
mergeWithTemplate(tmpl, newStr) ==
    MergeTokens(tmpl, newStr, tokenize(Join(tmpl.staticParts, <<NUL>>)),
                tokenize(newStr))

(***************************************************************************)
(* Fractions <<num, den>> with den > 0                                     *)
(***************************************************************************)
FracGE(f, g) == f[1] * g[2] >= g[1] * f[2]
FracGT(f, g) == f[1] * g[2] > g[1] * f[2]
FracIsZero(f) == f[1] = 0

(***************************************************************************)
(* LogCluster                                                              *)
(***************************************************************************)
Null == -1
maxExamples == 5
DefaultThreshold == <<4, 10>>
DefaultMaxClusters == 10

LogCluster(id, firstLine) ==
    [id |-> id, template |-> firstLine, staticParts |-> <<firstLine>>,
     count |-> 1, examples |-> <<firstLine>>, timestamps |-> <<>>]

\* tryAdd pushing the line whatever the length of examples.
AdmittedAlwaysPush(cluster, line, result) ==
    [cluster EXCEPT
        !.template = result.template,
        !.staticParts = result.staticParts,
        !.count = cluster.count + 1,
        !.examples = Append(cluster.examples, line)]

Admitted(cluster, line, result) ==
    [cluster EXCEPT
        !.template = result.template,
        !.staticParts = result.staticParts,
        !.count = cluster.count + 1,
        !.examples = IF Len(cluster.examples) < maxExamples
                     THEN Append(cluster.examples, line)
                     ELSE cluster.examples]

TryAddResult(cluster, line, threshold, result) ==
    IF FracGE(result.similarity, threshold)
    THEN [ok |-> TRUE, cluster |-> Admitted(cluster, line, result)]
    ELSE [ok |-> FALSE, cluster |-> cluster]

\* tryAdd without this.count++.
TryAddNoCountResult(cluster, line, threshold, result) ==
    IF FracGE(result.similarity, threshold)
    THEN [ok |-> TRUE,
          cluster |-> [Admitted(cluster, line, result) EXCEPT !.count = cluster.count]]
    ELSE [ok |-> FALSE, cluster |-> cluster]

tryAddNoCount(cluster, line, threshold) ==
    TryAddNoCountResult(cluster, line, threshold,
                        mergeWithTemplate([template |-> cluster.template,
                                           staticParts |-> cluster.staticParts], line))

tryAdd(cluster, line, threshold) ==
    TryAddResult(cluster, line, threshold,
                 mergeWithTemplate([template |-> cluster.template,
                                    staticParts |-> cluster.staticParts], line))

similarity(cluster, line) ==
    mergeWithTemplate([template |-> cluster.template,
                       staticParts |-> cluster.staticParts], line).similarity

addTimestamp(cluster, ts) ==
    [cluster EXCEPT !.timestamps = Append(cluster.timestamps, ts)]

(***************************************************************************)
(* LogClusterer                                                            *)
(***************************************************************************)
\* options.threshold and options.maxClusters: 0 stands for a falsy option
\* (absent or zero), which the constructor replaces by the default.
LogClusterer(options) ==
    [threshold |-> IF FracIsZero(options.threshold) THEN DefaultThreshold
                   ELSE options.threshold,
     maxClusters |-> IF options.maxClusters = 0 THEN DefaultMaxClusters
                     ELSE options.maxClusters,
     clusters |-> <<>>,
     nextId |-> 0]

\* The scan that stops at the first cluster reaching the threshold.
RECURSIVE BestFromFirst(_, _, _, _, _, _)
BestFromFirst(clusters, line, threshold, k, bestSimilarity, bestCluster) ==
    IF k > Len(clusters) THEN bestCluster
    ELSE IF FracGE(mergeWithTemplate(
                       [template |-> clusters[k].template,
                        staticParts |-> clusters[k].staticParts], line).similarity,
                   threshold)
         THEN k
         ELSE BestFromFirst(clusters, line, threshold, k + 1, bestSimilarity,
                            bestCluster)

\* The scan of add: the index of bestCluster, 0 when it stays null.
RECURSIVE BestFrom(_, _, _, _, _, _)
BestStep(clusters, line, threshold, k, bestSimilarity, bestCluster, sim) ==
    IF FracGT(sim, bestSimilarity) /\ FracGE(sim, threshold)
    THEN BestFrom(clusters, line, threshold, k + 1, sim, k)
    ELSE BestFrom(clusters, line, threshold, k + 1, bestSimilarity, bestCluster)

BestFrom(clusters, line, threshold, k, bestSimilarity, bestCluster) ==
    IF k > Len(clusters) THEN bestCluster
    ELSE BestStep(clusters, line, threshold, k, bestSimilarity, bestCluster,
                  similarity(clusters[k], line))

BestCluster(clusters, line, threshold) ==
    BestFrom(clusters, line, threshold, 1, <<0, 1>>, 0)

\* splice(minIdx) without the count: the tail goes too.
RemoveFrom(seq, idx) == SubSeq(seq, 1, idx - 1)

RemoveAt(seq, idx) == SubSeq(seq, 1, idx - 1) \o SubSeq(seq, idx + 1, Len(seq))

\* minIdx: the first index holding the minimal count (strict <).
MinIdx(clusters) ==
    CHOOSE i \in 1..Len(clusters) :
        /\ \A k \in 1..Len(clusters) : clusters[i].count <= clusters[k].count
        /\ \A k \in 1..(i - 1) : clusters[k].count > clusters[i].count

\* The eviction with <= in place of <: the newest of the smallest goes.
mergeLastSmallest(clusters) ==
    IF Len(clusters) = 0 THEN clusters
    ELSE SubSeq(clusters, 1,
                (CHOOSE i \in 1..Len(clusters) :
                    /\ \A k \in 1..Len(clusters) : clusters[i].count <= clusters[k].count
                    /\ \A k \in (i + 1)..Len(clusters) :
                           clusters[k].count > clusters[i].count) - 1)
         \o SubSeq(clusters,
                   (CHOOSE i \in 1..Len(clusters) :
                       /\ \A k \in 1..Len(clusters) : clusters[i].count <= clusters[k].count
                       /\ \A k \in (i + 1)..Len(clusters) :
                              clusters[k].count > clusters[i].count) + 1,
                   Len(clusters))

_mergeMostSimilar(clusters) ==
    IF Len(clusters) = 0 THEN clusters
    ELSE RemoveAt(clusters, MinIdx(clusters))

\* An id taken from the population instead of the counter.
NewIdFromLength(self) == Len(self.clusters)

\* this.nextId++ : the id given to a new cluster.
NewId(self) == self.nextId

\* The capacity test with > in place of >=.
IsFullLate(self) == Len(self.clusters) > self.maxClusters

IsFull(self) == Len(self.clusters) >= self.maxClusters

Stamped(cluster, timestamp) ==
    IF timestamp # Null THEN addTimestamp(cluster, timestamp) ELSE cluster

\* add, bestCluster found: tryAdd, addTimestamp, return bestCluster.id.
AddToBest(self, line, timestamp, best) ==
    [clusterer |->
        [self EXCEPT !.clusters[best] =
            Stamped(tryAdd(self.clusters[best], line, self.threshold).cluster,
                    timestamp)],
     id |-> self.clusters[best].id]

\* add, bestCluster null: a new cluster, after an eviction when full.
AddNew(self, line, timestamp) ==
    [clusterer |->
        [self EXCEPT
            !.clusters = Append(IF IsFull(self) THEN _mergeMostSimilar(self.clusters)
                                ELSE self.clusters,
                                Stamped(LogCluster(NewId(self), line), timestamp)),
            !.nextId = self.nextId + 1],
     id |-> NewId(self)]

AddWith(self, line, timestamp, best) ==
    IF best # 0 THEN AddToBest(self, line, timestamp, best)
    ELSE AddNew(self, line, timestamp)

\* add returns the clusterer after the call and the id the call returns.
add(self, line, timestamp) ==
    AddWith(self, line, timestamp,
            BestCluster(self.clusters, line, self.threshold))

\* The lookup by position in the array instead of by id.
getClusterByIndex(self, id) ==
    IF id + 1 \in 1..Len(self.clusters) THEN <<self.clusters[id + 1]>> ELSE <<>>

\* Array.prototype.find: <<c>> for the first match, <<>> for undefined.
getCluster(self, id) ==
    LET found == SelectSeq(self.clusters, LAMBDA c : c.id = id)
    IN  IF Len(found) = 0 THEN <<>> ELSE <<found[1]>>

RECURSIVE SumCount(_)
SumCount(clusters) ==
    IF Len(clusters) = 0 THEN 0
    ELSE clusters[1].count + SumCount(Tail(clusters))

(***************************************************************************)
(* timestamps.js: the recognizers iso8601, simple, epoch_ms and epoch_s.    *)
(* A Date is held as its time in seconds: the epoch_s value before the     *)
(* multiplication by 1000.                                                 *)
(***************************************************************************)
Digits == <<"0", "1", "2", "3", "4", "5", "6", "7", "8", "9">>
IsDigit(c) == \E d \in 1..Len(Digits) : Digits[d] = c
DigitVal(c) == (CHOOSE d \in 1..Len(Digits) : Digits[d] = c) - 1

RECURSIVE parseInt(_)
parseInt(digits) ==
    IF Len(digits) = 0 THEN 0
    ELSE 10 * parseInt(SubSeq(digits, 1, Len(digits) - 1))
         + DigitVal(digits[Len(digits)])

\* \b at the gap before position i of s.
WordBoundary(s, i) ==
    LET before == i > 1 /\ IsWord(s[i - 1])
        after == i <= Len(s) /\ IsWord(s[i])
    IN  before # after

\* /\b(1[4-9]\d{n})\b/ matched at position i.
EpochAt(s, i, n) ==
    /\ i + n + 1 <= Len(s)
    /\ WordBoundary(s, i)
    /\ s[i] = "1"
    /\ s[i + 1] \in {"4", "5", "6", "7", "8", "9"}
    /\ \A k \in (i + 2)..(i + n + 1) : IsDigit(s[k])
    /\ WordBoundary(s, i + n + 2)

\* line.match(regex): <<match[1]>> for the leftmost match, <<>> for null.
EpochMatch(s, n) ==
    IF \E i \in 1..Len(s) : EpochAt(s, i, n)
    THEN <<SubSeq(s, CHOOSE i \in 1..Len(s) :
                         EpochAt(s, i, n) /\ \A k \in 1..(i - 1) : ~EpochAt(s, k, n),
                  (CHOOSE i \in 1..Len(s) :
                         EpochAt(s, i, n) /\ \A k \in 1..(i - 1) : ~EpochAt(s, k, n))
                  + n + 1)>>
    ELSE <<>>

\* /\d{4}-\d{2}-\d{2}[T ]\d{2}:\d{2}:\d{2}/ matched at position i; seps is the
\* set the character between date and time is taken from.
IsoAt(s, i, seps) ==
    /\ i + 18 <= Len(s)
    /\ \A k \in {0, 1, 2, 3, 5, 6, 8, 9, 11, 12, 14, 15, 17, 18} : IsDigit(s[i + k])
    /\ s[i + 4] = "-"
    /\ s[i + 7] = "-"
    /\ s[i + 10] \in seps
    /\ s[i + 13] = ":"
    /\ s[i + 16] = ":"

IsoFirst(s, seps) ==
    CHOOSE i \in 1..Len(s) : IsoAt(s, i, seps) /\ \A k \in 1..(i - 1) : ~IsoAt(s, k, seps)

\* iso8601: match[1] is the date and time; the lines read carry no fraction
\* and no zone after the seconds, the optional groups match nothing.
IsoMatch(s) ==
    IF \E i \in 1..Len(s) : IsoAt(s, i, {"T", " "})
    THEN <<SubSeq(s, IsoFirst(s, {"T", " "}), IsoFirst(s, {"T", " "}) + 18)>>
    ELSE <<>>

\* simple: match[1] is the date, match[2] the time.
SimpleMatch(s) ==
    IF \E i \in 1..Len(s) : IsoAt(s, i, {" "})
    THEN <<SubSeq(s, IsoFirst(s, {" "}), IsoFirst(s, {" "}) + 9),
           SubSeq(s, IsoFirst(s, {" "}) + 11, IsoFirst(s, {" "}) + 18)>>
    ELSE <<>>

\* The catalogue in order.  clf and bracket need a '[' in the line, syslog
\* a day number between two runs of whitespace; the lines read have none.
TIMESTAMP_PATTERNS ==
    <<"iso8601", "clf", "syslog", "simple", "epoch_ms", "epoch_s", "bracket">>

NoPattern == "none"

RegexMatch(pattern, line) ==
    IF pattern = "iso8601" THEN IsoMatch(line)
    ELSE IF pattern = "simple" THEN SimpleMatch(line)
    ELSE IF pattern = "epoch_ms" THEN EpochMatch(line, 11)
    ELSE IF pattern = "epoch_s" THEN EpochMatch(line, 8)
    ELSE <<>>

DaysBeforeMonth == <<0, 31, 59, 90, 120, 151, 181, 212, 243, 273, 304, 334>>

IsLeap(y) == (y % 4 = 0 /\ y % 100 # 0) \/ y % 400 = 0

DaysBeforeYear(y) ==
    365 * (y - 1970) + ((y - 1969) \div 4) - ((y - 1901) \div 100)
        + ((y - 1601) \div 400)

\* new Date(string) for the fields of a date and time, in seconds, the zone
\* of the process being UTC; Null is the invalid Date.  A month outside
\* 1..12, a day outside 1..31, an hour above 23 (24:00:00 apart), a minute
\* or a second above 59 make the Date invalid; a day past the end of its
\* month runs into the next month.
DateOf(y, mo, d, h, mi, sec) ==
    IF \/ mo \notin 1..12
       \/ d \notin 1..31
       \/ mi > 59
       \/ sec > 59
       \/ h > 24
       \/ (h = 24 /\ (mi # 0 \/ sec # 0))
    THEN Null
    ELSE ((DaysBeforeYear(y) + DaysBeforeMonth[mo]
            + (IF mo > 2 /\ IsLeap(y) THEN 1 ELSE 0) + (d - 1)) * 24 + h) * 3600
         + mi * 60 + sec

ParseFields(date, time) ==
    DateOf(parseInt(SubSeq(date, 1, 4)), parseInt(SubSeq(date, 6, 7)),
           parseInt(SubSeq(date, 9, 10)), parseInt(SubSeq(time, 1, 2)),
           parseInt(SubSeq(time, 4, 5)), parseInt(SubSeq(time, 7, 8)))

\* pattern.parse(match) in seconds, Null for an invalid Date; a 13-digit
\* match is milliseconds.
ParseDate(pattern, match) ==
    IF pattern = "iso8601"
    THEN ParseFields(SubSeq(match[1], 1, 10), SubSeq(match[1], 12, 19))
    ELSE IF pattern = "simple" THEN ParseFields(match[1], match[2])
    ELSE IF pattern = "epoch_ms" THEN parseInt(SubSeq(match[1], 1, 10))
    ELSE parseInt(match[1])

extractTimestamp(line, pattern) ==
    IF pattern = NoPattern \/ RegexMatch(pattern, line) = <<>> THEN Null
    ELSE ParseDate(pattern, RegexMatch(pattern, line))

\* matches counts the sample lines the recognizer matches.
Matches(pattern, sampleLines) ==
    Cardinality({k \in 1..Len(sampleLines) :
                    RegexMatch(pattern, sampleLines[k]) # <<>>})

\* validDates counts the sample lines that match and parse to a valid Date.
ValidDates(pattern, sampleLines) ==
    Cardinality({k \in 1..Len(sampleLines) :
                    extractTimestamp(sampleLines[k], pattern) # Null})

\* The scan over the scores: a strictly greater confidence replaces the best.
RECURSIVE BestPatternFrom(_, _, _, _)
BestPatternFrom(sampleLines, k, bestPattern, bestScore) ==
    IF k > Len(TIMESTAMP_PATTERNS) THEN <<bestPattern, bestScore>>
    ELSE IF ValidDates(TIMESTAMP_PATTERNS[k], sampleLines) > bestScore
         THEN BestPatternFrom(sampleLines, k + 1, TIMESTAMP_PATTERNS[k],
                              ValidDates(TIMESTAMP_PATTERNS[k], sampleLines))
         ELSE BestPatternFrom(sampleLines, k + 1, bestPattern, bestScore)

\* confidence = validDates / sampleLines.length; bestScore > 0.5.
DetectResult(sampleLines, best) ==
    IF best[1] # NoPattern /\ 2 * best[2] > Len(sampleLines) THEN best[1]
    ELSE NoPattern

detectTimestampFormat(sampleLines) ==
    DetectResult(sampleLines, BestPatternFrom(sampleLines, 1, NoPattern, 0))

\* Array.prototype.sort((a, b) => a - b).
RECURSIVE InsertAsc(_, _)
InsertAsc(x, sorted) ==
    IF Len(sorted) = 0 THEN <<x>>
    ELSE IF x < sorted[1] THEN <<x>> \o sorted
    ELSE <<sorted[1]>> \o InsertAsc(x, Tail(sorted))

RECURSIVE SortAsc(_)
SortAsc(seq) ==
    IF Len(seq) = 0 THEN <<>>
    ELSE InsertAsc(seq[Len(seq)], SortAsc(SubSeq(seq, 1, Len(seq) - 1)))

(***************************************************************************)
(* server.js: readLines, the fileCache and getOrCreateClustering           *)
(***************************************************************************)
SampleLimit == 100
NoFilter == <<>>

\* line.includes(filter)
Includes(line, filter) ==
    \E i \in 0..(Len(line) - Len(filter)) :
        SubSeq(line, i + 1, i + Len(filter)) = filter

(***************************************************************************)
(* new RegExp(source) and RegExp.test for sources made of literal word     *)
(* characters and spaces, '.', and bracket classes listing such characters *)
(***************************************************************************)
\* The index of the ']' that closes the class opened at i, 0 when none does.
ClassEnd(src, i) ==
    IF \E j \in (i + 1)..Len(src) : src[j] = "]"
    THEN CHOOSE j \in (i + 1)..Len(src) :
             src[j] = "]" /\ \A k \in (i + 1)..(j - 1) : src[k] # "]"
    ELSE 0

\* new RegExp(src) does not throw: every class is terminated.
RECURSIVE RegexValid(_, _)
RegexValid(src, i) ==
    IF i > Len(src) THEN TRUE
    ELSE IF src[i] = "[" THEN ClassEnd(src, i) # 0 /\ RegexValid(src, ClassEnd(src, i) + 1)
    ELSE RegexValid(src, i + 1)

\* The atoms of a valid source, each matching one character.
RECURSIVE Atoms(_, _)
Atoms(src, i) ==
    IF i > Len(src) THEN <<>>
    ELSE IF src[i] = "["
    THEN <<[any |-> FALSE,
            chars |-> {src[k] : k \in (i + 1)..(ClassEnd(src, i) - 1)}]>>
         \o Atoms(src, ClassEnd(src, i) + 1)
    ELSE IF src[i] = "."
    THEN <<[any |-> TRUE, chars |-> {}]>> \o Atoms(src, i + 1)
    ELSE <<[any |-> FALSE, chars |-> {src[i]}]>> \o Atoms(src, i + 1)

MatchAt(atoms, line, start) ==
    /\ start + Len(atoms) - 1 <= Len(line)
    /\ \A k \in 1..Len(atoms) :
           atoms[k].any \/ line[start + k - 1] \in atoms[k].chars

\* regex.test(line), without flags.
RegexTest(src, line) ==
    \E start \in 1..(Len(line) + 1) : MatchAt(Atoms(src, 1), line, start)

startsWith(pattern, c) == Len(pattern) > 0 /\ pattern[1] = c
endsWith(pattern, c) == Len(pattern) > 0 /\ pattern[Len(pattern)] = c

\* pattern.slice(1, -1)
Slice1(pattern) == SubSeq(pattern, 2, Len(pattern) - 1)

\* The filter handleLogGrep builds from its pattern.
GrepFilter(pattern) ==
    IF startsWith(pattern, "/") /\ endsWith(pattern, "/")
    THEN [regex |-> TRUE, src |-> Slice1(pattern)]
    ELSE [regex |-> FALSE, src |-> pattern]

\* typeof filter === 'string' ? line.includes(filter) : filter.test(line)
GrepMatches(filter, line) ==
    IF filter.regex THEN RegexTest(filter.src, line) ELSE Includes(line, filter.src)

\* readLines: a falsy filter ('' or null) lets every line through.
Passes(line, filter) == Len(filter) = 0 \/ Includes(line, filter)

\* The cache key `${filePath}:${maxClusters}:${threshold}:${filter || ''}`.
CacheKey(file, maxClusters, threshold, filter) ==
    <<file, maxClusters, threshold, filter>>

\* Math.max(x, lo) alone.
ClampBelow(x, lo, hi) == IF x > lo THEN x ELSE lo

\* Math.min(Math.max(x, lo), hi)
Clamp(x, lo, hi) ==
    IF (IF x > lo THEN x ELSE lo) < hi THEN (IF x > lo THEN x ELSE lo) ELSE hi

ClampThreshold(t) ==
    IF FracGT(<<1, 10>>, t) THEN <<1, 10>>
    ELSE IF FracGT(t, <<9, 10>>) THEN <<9, 10>>
    ELSE t

\* fileCache.set(key, result); version counts the writes of the key.
CacheSet(cache, key, result) ==
    [k \in DOMAIN cache \cup {key} |->
        IF k = key
        THEN [result EXCEPT !.version =
                 IF key \in DOMAIN cache THEN cache[key].version + 1 ELSE 1]
        ELSE cache[k]]

\* The write moved into a finally block.
CacheOnFailureStored(cache, key, partial) == CacheSet(cache, key, partial)

\* A pass that throws between two lines never reaches fileCache.set.
CacheOnFailure(cache, key, partial) == cache

\* getStats: the clusters by count, largest first (stable); the percent
\* string derived from count is left out.
RECURSIVE InsertByCount(_, _)
InsertByCount(x, sorted) ==
    IF Len(sorted) = 0 THEN <<x>>
    ELSE IF x.count > sorted[1].count THEN <<x>> \o sorted
    ELSE <<sorted[1]>> \o InsertByCount(x, Tail(sorted))

RECURSIVE SortByCount(_)
SortByCount(seq) ==
    IF Len(seq) = 0 THEN <<>>
    ELSE InsertByCount(seq[Len(seq)], SortByCount(SubSeq(seq, 1, Len(seq) - 1)))

toJSON(c) ==
    [id |-> c.id, count |-> c.count, template |-> c.template, examples |-> c.examples]

getStats(self) ==
    SortByCount([k \in 1..Len(self.clusters) |-> toJSON(self.clusters[k])])

(***************************************************************************)
(* Inputs                                                                  *)
(***************************************************************************)
MaxAdds == 4
MaxK == 2

LineAB == <<"a", "a", " ", "b", "b">>
LineCD == <<"c", "c", " ", "d", "d">>
LineACD == <<"a", "a", " ", "c", "c", " ", "d", "d">>
LineShort == <<"a", " ", "b">>
LineEmpty == <<>>

\* add(line, timestamp) calls: the timestamp is the one read from the line.
Inputs ==
    {[line |-> LineAB, timestamp |-> 1000],
     [line |-> LineCD, timestamp |-> Null],
     [line |-> LineACD, timestamp |-> 2000],
     [line |-> LineShort, timestamp |-> Null],
     [line |-> LineEmpty, timestamp |-> Null]}

\* Pairwise unrelated lines: one distinct significant word each.
Unrelated ==
    <<  <<"q", "0">>, <<"q", "1">>, <<"q", "2">>, <<"q", "3">>, <<"q", "4">>,
        <<"q", "5">>, <<"q", "6">>, <<"q", "7">>, <<"q", "8">>, <<"q", "9">>,
        <<"q", "a">>, <<"q", "b">>  >>

ThresholdOptions == {<<0, 1>>, <<7, 10>>}
MaxClustersOptions == 0..MaxK

(***************************************************************************)
(* Inputs of the server: one log file, one missing path, the tool calls    *)
(***************************************************************************)
MaxCalls == 2
Procs == 1..2

AppLog == "app.log"
Missing == "gone.log"

Line20 == <<"1", "7", "0", "0", "0", "0", "0", "0", "2", "0", " ",
            "a", "a", " ", "b", "b", " ", "c", "c", " ", "d", "d">>
Line10 == <<"1", "7", "0", "0", "0", "0", "0", "0", "1", "0", " ",
            "a", "a", " ", "b", "b", " ", "c", "c", " ", "z", "z">>
LineQ == <<"q", "q">>

\* The lines of app.log; the second carries the earlier time.
FileLines == <<Line20, Line10, LineQ>>

FilterAA == <<"a", "a">>

NoReq == [tool |-> "none"]

Request(tool, file, max_clusters, threshold, filter, cluster_id, force) ==
    [tool |-> tool, file |-> file, max_clusters |-> max_clusters,
     threshold |-> threshold, filter |-> filter, cluster_id |-> cluster_id,
     max_subclusters |-> 5, forceRefresh |-> force,
     pattern |-> <<>>, max_examples |-> 5, context_lines |-> 0]

GrepRequest(file, pattern, max_examples, context_lines) ==
    [Request("log_grep", file, DefaultMaxClusters, DefaultThreshold, NoFilter, Null, FALSE)
        EXCEPT !.pattern = pattern, !.max_examples = max_examples,
               !.context_lines = context_lines]

PatternZZ == <<"z", "z">>
PatternClass == <<"/", "[", "d", "z", "]", "z", "/">>
PatternMalformed == <<"/", "[", "a", "b", "c", "/">>
PatternSlash == <<"/">>

\* log_cluster takes max_clusters, threshold and filter; the other tools
\* call getOrCreateClustering(file) with its defaults.
Requests ==
    {Request("log_cluster", AppLog, DefaultMaxClusters, DefaultThreshold, filter,
             Null, FALSE) : filter \in {NoFilter, FilterAA}}
    \cup {Request("log_cluster", Missing, DefaultMaxClusters, DefaultThreshold,
                  NoFilter, Null, FALSE)}
    \cup {Request("log_cluster_drill", AppLog, DefaultMaxClusters, DefaultThreshold,
                  NoFilter, id, FALSE) : id \in {0, 2}}
    \cup {Request("log_timeline", AppLog, DefaultMaxClusters, DefaultThreshold,
                  NoFilter, id, FALSE) : id \in {Null, 0, 1}}
    \cup {Request("log_overview", AppLog, DefaultMaxClusters, DefaultThreshold,
                  NoFilter, Null, FALSE)}
    \cup {Request("getOrCreateClustering", AppLog, DefaultMaxClusters,
                  DefaultThreshold, NoFilter, Null, TRUE)}

\* A client that clusters with settings inside and outside the accepted
\* ranges and drills down.
DrillRequests ==
    {Request("log_cluster", AppLog, a[1], a[2], NoFilter, Null, FALSE) :
        a \in {<<DefaultMaxClusters, DefaultThreshold>>,
               <<1, <<95, 100>>>>,
               <<25, <<5, 100>>>>}}
    \cup {Request("log_cluster_drill", AppLog, DefaultMaxClusters, DefaultThreshold,
                  NoFilter, id, FALSE) : id \in {0, 2}}
    \cup {[Request("log_cluster_drill", AppLog, DefaultMaxClusters, DefaultThreshold,
                   NoFilter, 0, FALSE) EXCEPT !.max_subclusters = 1]}

\* A client that searches, and makes one call per other kind of {error}: a
\* missing file, an unknown cluster, a cluster without timestamps.
GrepRequests ==
    {GrepRequest(AppLog, pattern, 5, 0) :
        pattern \in {PatternZZ, PatternClass, PatternMalformed, PatternSlash}}
    \cup {GrepRequest(AppLog, <<" ">>, 1, 1)}
    \cup {Request("log_cluster", Missing, DefaultMaxClusters, DefaultThreshold,
                  NoFilter, Null, FALSE)}
    \cup {Request("log_cluster_drill", AppLog, DefaultMaxClusters, DefaultThreshold,
                  NoFilter, 2, FALSE)}
    \cup {Request("log_timeline", AppLog, DefaultMaxClusters, DefaultThreshold,
                  NoFilter, 1, FALSE)}

AppDisk == [f \in {AppLog} |-> FileLines]

\* A file of twelve lines: two equal lines without a time, then ten
\* pairwise unrelated lines with one.  With the default max_clusters = 10 the
\* cluster of the third line (id 1) is evicted when the twelfth arrives.
BigLog == "big.log"

Stamped10(d) ==
    <<"1", "7", "0", "0", "0", "0", "0", "0", "0", d, " ", "q", d>>

BigLines ==
    <<  <<"q", "q", " ", "z", "z">>, <<"q", "q", " ", "z", "z">>  >>
    \o [k \in 1..10 |-> Stamped10(Digits[k])]

BigDisk == [f \in {BigLog} |-> BigLines]

EvictRequests ==
    {Request("log_cluster_drill", BigLog, DefaultMaxClusters, DefaultThreshold,
             NoFilter, id, FALSE) : id \in {0, 1, 11}}
    \cup {Request("log_timeline", BigLog, DefaultMaxClusters, DefaultThreshold,
                  NoFilter, id, FALSE) : id \in {1, 2}}

(***************************************************************************)
(* State                                                                   *)
(***************************************************************************)
VARIABLES
    clusterer,  \* the LogClusterer object driven directly
    fed,        \* the add calls made on it: line, timestamp, returned id
    stream,     \* number of leading add calls that fed Unrelated in order
    disk,       \* the files that exist: path -> lines
    client,     \* the requests the client of the session may send
    fileCache,  \* the Map of server.js: key -> result of getOrCreateClustering
    proc,       \* the tool invocations in flight, one per slot
    reply,      \* the result the dispatcher sent last
    calls,      \* number of invocations made
    input,      \* the arguments of a call of a function of timestamps.js
    output      \* what the call returned

cvars == <<clusterer, fed, stream>>
svars == <<disk, client, fileCache, proc, reply, calls>>
pvars == <<input, output>>
vars == <<clusterer, fed, stream, disk, client, fileCache, proc, reply, calls,
          input, output>>

adds == Len(fed)

existsSync(file) == file \in DOMAIN disk

\* The lines readLines delivers to the invocation in slot p.
Lines(p) == disk[proc[p].req.file]

\* The calls the client makes about the files that exist.
ClientRequests == client

\* The fields of the results the properties read: the cluster id and the
\* template a drill or a timeline echoes, a count, the cluster list, the
\* first and last time.
Reply(tool, error, cluster_id, template, total_lines, clusters, time_range) ==
    [tool |-> tool, error |-> error, cluster_id |-> cluster_id,
     template |-> template, total_lines |-> total_lines,
     clusters |-> clusters, time_range |-> time_range]

NoReply == Reply("none", "", Null, <<>>, 0, <<>>, <<>>)

\* seen: the log_cluster result the client had last received when it sent a
\* request that names a cluster (log_cluster_drill, log_timeline);
\* wrote: this invocation has called fileCache.set.
IdleProc ==
    [phase |-> "idle", req |-> NoReq, key |-> <<>>, pos |-> 0,
     sampleLines |-> <<>>, pattern |-> NoPattern,
     clusterer |-> LogClusterer([maxClusters |-> 0, threshold |-> <<0, 1>>]),
     timestamps |-> <<>>, totalLines |-> 0, parent |-> <<>>,
     seen |-> NoReply, wrote |-> FALSE,
     filter |-> [regex |-> FALSE, src |-> <<>>], count |-> 0, examples |-> <<>>,
     contextBuffer |-> <<>>]

InitClusterer ==
    /\ fed = <<>>
    /\ stream = 0

NoArgs == [fn |-> "none"]
NoResult == <<>>

\* No function of timestamps.js has been called on its own.
InitNoCall ==
    /\ input = NoArgs
    /\ output = NoResult

InitServer ==
    /\ fileCache = <<>>
    /\ proc = [p \in Procs |-> IdleProc]
    /\ reply = NoReply
    /\ calls = 0

(***************************************************************************)
(* One LogClusterer driven through add                                     *)
(***************************************************************************)
Init ==
    /\ \E k \in MaxClustersOptions, t \in ThresholdOptions :
           clusterer = LogClusterer([maxClusters |-> k, threshold |-> t])
    /\ InitClusterer
    /\ disk = AppDisk
    /\ client = Requests
    /\ InitServer
    /\ InitNoCall

Called(line, timestamp, r) ==
    /\ clusterer' = r.clusterer
    /\ fed' = Append(fed, [line |-> line, timestamp |-> timestamp, id |-> r.id])

Add(line, timestamp) == Called(line, timestamp, add(clusterer, line, timestamp))

AddLine ==
    /\ adds < MaxAdds
    /\ \E in \in Inputs : Add(in.line, in.timestamp)
    /\ UNCHANGED stream
    /\ UNCHANGED <<svars, pvars>>

\* Scenario E: distinct unrelated lines, one after the other.
AddUnrelated ==
    /\ stream = adds
    /\ stream < Len(Unrelated)
    /\ Add(Unrelated[stream + 1], Null)
    /\ stream' = stream + 1
    /\ UNCHANGED <<svars, pvars>>

Next == AddLine \/ AddUnrelated

Spec == Init /\ [][Next]_vars

(***************************************************************************)
(* The server: tool invocations interleaved at their file reads            *)
(***************************************************************************)
\* What is kept of the last result for the invocation of req: the cluster
\* list the client had before it when it named a cluster.
Seen(req, last) ==
    IF req.tool \in {"log_cluster_drill", "log_timeline"} /\ last.tool = "log_cluster"
    THEN last ELSE NoReply

\* An {error} result; the unknown-cluster kinds name the id asked for.
ErrorReply(tool, error) == Reply(tool, error, Null, <<>>, 0, <<>>, <<>>)

ClusterError(tool, error, cluster_id) ==
    Reply(tool, error, cluster_id, <<>>, 0, <<>>, <<>>)

Range(sorted) ==
    IF Len(sorted) = 0 THEN <<>> ELSE <<sorted[1], sorted[Len(sorted)]>>

\* The handler returns: the dispatcher sends the result.
Done(p, cache, r) ==
    /\ fileCache' = cache
    /\ proc' = [proc EXCEPT ![p] = IdleProc]
    /\ reply' = r

\* The key getOrCreateClustering is called with by each handler.
KeyOf(req) ==
    IF req.tool = "log_cluster"
    THEN CacheKey(req.file, Clamp(req.max_clusters, 2, 20),
                  ClampThreshold(req.threshold), req.filter)
    ELSE IF req.tool = "getOrCreateClustering"
    THEN CacheKey(req.file, req.max_clusters, req.threshold, req.filter)
    ELSE CacheKey(req.file, DefaultMaxClusters, DefaultThreshold, NoFilter)

\* Cache miss or forceRefresh: fresh locals, then the first pass begins.
StartPass(p, req, key) ==
    /\ proc' = [proc EXCEPT ![p] =
                   [IdleProc EXCEPT
                       !.phase = "sample", !.req = req, !.key = key,
                       !.seen = Seen(req, reply),
                       !.clusterer = LogClusterer([maxClusters |-> key[2],
                                                   threshold |-> key[3]])]]
    /\ UNCHANGED <<fileCache, reply>>

\* The sub-clusterer built without its threshold option.
subClustererDefault(max_subclusters) ==
    LogClusterer([maxClusters |-> max_subclusters, threshold |-> <<0, 1>>])

\* new LogClusterer({ maxClusters: max_subclusters, threshold: 0.5 })
subClusterer(max_subclusters) ==
    LogClusterer([maxClusters |-> max_subclusters, threshold |-> <<5, 10>>])

\* The handler starts re-reading the file with the cluster it looked up.
StartReread(p, req, phase, cache, entry, parent) ==
    /\ fileCache' = cache
    /\ proc' = [proc EXCEPT ![p] =
                   [IdleProc EXCEPT
                       !.phase = phase, !.req = req,
                       !.seen = IF proc[p].phase = "idle" THEN Seen(req, reply)
                                ELSE proc[p].seen,
                       !.wrote = (cache # fileCache),
                       !.pattern = entry.timestampPattern,
                       !.parent = parent,
                       !.clusterer = subClusterer(req.max_subclusters)]]
    /\ UNCHANGED reply

OverviewTail(p, req, key, cache, entry) ==
    Done(p, [cache EXCEPT ![key].timestamps = SortAsc(entry.timestamps)],
         Reply(req.tool, "", Null, <<>>, entry.totalLines, <<>>,
               Range(SortAsc(entry.timestamps))))

ClusterTail(p, req, cache, entry) ==
    Done(p, cache,
         Reply(req.tool, "", Null, <<>>, entry.totalLines,
               getStats(entry.clusterer), <<>>))

DrillTail(p, req, cache, entry, parent) ==
    IF parent = <<>>
    THEN Done(p, cache, ClusterError(req.tool, "Cluster not found. Run log_cluster first.",
                                     req.cluster_id))
    ELSE StartReread(p, req, "drill", cache, entry, parent)

TimelineTail(p, req, key, cache, entry) ==
    IF entry.timestampPattern = NoPattern
    THEN Done(p, cache, ErrorReply(req.tool, "No timestamp format detected in log file"))
    ELSE IF req.cluster_id # Null
    THEN IF getCluster(entry.clusterer, req.cluster_id) = <<>>
         THEN Done(p, cache, ClusterError(req.tool, "Cluster not found", req.cluster_id))
         ELSE StartReread(p, req, "timeline", cache, entry,
                          getCluster(entry.clusterer, req.cluster_id))
    ELSE IF Len(entry.timestamps) = 0
    THEN Done(p, cache, ErrorReply(req.tool, "No timestamps found"))
    ELSE Done(p, [cache EXCEPT ![key].timestamps = SortAsc(entry.timestamps)],
              Reply(req.tool, "", Null, <<>>, Len(entry.timestamps), <<>>,
                    Range(SortAsc(entry.timestamps))))

\* What each handler does with the result of getOrCreateClustering.
Continue(p, req, key, cache, entry) ==
    CASE req.tool = "log_overview" -> OverviewTail(p, req, key, cache, entry)
      [] req.tool = "log_cluster" -> ClusterTail(p, req, cache, entry)
      [] req.tool = "log_cluster_drill" ->
            DrillTail(p, req, cache, entry, getCluster(entry.clusterer, req.cluster_id))
      [] req.tool = "log_timeline" -> TimelineTail(p, req, key, cache, entry)
      [] OTHER -> Done(p, cache, Reply(req.tool, "", Null, <<>>, entry.totalLines, <<>>, <<>>))

Resume(p, req, key, cache) == Continue(p, req, key, cache, cache[key])

\* handleLogGrep up to its loop: the pattern becomes the filter.
GrepStart(p, req) ==
    IF /\ startsWith(req.pattern, "/")
       /\ endsWith(req.pattern, "/")
       /\ ~RegexValid(Slice1(req.pattern), 1)
    THEN Done(p, fileCache,
              Reply(req.tool, "Invalid regex", Null, req.pattern, 0, <<>>, <<>>))
    ELSE /\ proc' = [proc EXCEPT ![p] =
                        [IdleProc EXCEPT !.phase = "grep", !.req = req,
                                         !.filter = GrepFilter(req.pattern)]]
         /\ UNCHANGED <<fileCache, reply>>

Handle(p, req, key) ==
    IF ~existsSync(req.file)
    THEN Done(p, fileCache, ErrorReply(req.tool, "File not found"))
    ELSE IF req.tool = "log_grep"
    THEN GrepStart(p, req)
    ELSE IF ~req.forceRefresh /\ key \in DOMAIN fileCache
    THEN Resume(p, req, key, fileCache)
    ELSE StartPass(p, req, key)

\* A tool invocation arrives, takes the first free slot and runs up to its
\* first file read.
Call(p) ==
    /\ calls < MaxCalls
    /\ proc[p].phase = "idle"
    /\ \A q \in Procs : q < p => proc[q].phase # "idle"
    /\ calls' = calls + 1
    /\ \E req \in ClientRequests : Handle(p, req, KeyOf(req))
    /\ UNCHANGED <<cvars, disk, client, pvars>>

\* First pass: one line of the file is delivered.
SampleRead(p) ==
    /\ proc[p].phase = "sample"
    /\ proc[p].pos < Len(Lines(p))
    /\ Len(proc[p].sampleLines) < SampleLimit
    /\ proc' = [proc EXCEPT
                   ![p].pos = @ + 1,
                   ![p].sampleLines =
                       IF Passes(Lines(p)[proc[p].pos + 1], proc[p].key[4])
                       THEN Append(@, Lines(p)[proc[p].pos + 1]) ELSE @]
    /\ UNCHANGED <<fileCache, reply, calls>>
    /\ UNCHANGED <<cvars, disk, client, pvars>>

\* First pass over: the format is detected and the main pass begins.
SampleEnd(p) ==
    /\ proc[p].phase = "sample"
    /\ \/ proc[p].pos = Len(Lines(p))
       \/ Len(proc[p].sampleLines) >= SampleLimit
    /\ proc' = [proc EXCEPT
                   ![p].phase = "main",
                   ![p].pos = 0,
                   ![p].pattern = detectTimestampFormat(proc[p].sampleLines)]
    /\ UNCHANGED <<fileCache, reply, calls>>
    /\ UNCHANGED <<cvars, disk, client, pvars>>

MainStep(p, line, timestamp) ==
    proc' = [proc EXCEPT
                ![p].pos = @ + 1,
                ![p].totalLines = @ + 1,
                ![p].clusterer = add(@, line, timestamp).clusterer,
                ![p].timestamps = IF timestamp # Null THEN Append(@, timestamp) ELSE @]

\* Main pass: one line of the file is delivered.
MainRead(p) ==
    /\ proc[p].phase = "main"
    /\ proc[p].pos < Len(Lines(p))
    /\ IF Passes(Lines(p)[proc[p].pos + 1], proc[p].key[4])
       THEN MainStep(p, Lines(p)[proc[p].pos + 1],
                     extractTimestamp(Lines(p)[proc[p].pos + 1], proc[p].pattern))
       ELSE proc' = [proc EXCEPT ![p].pos = @ + 1]
    /\ UNCHANGED <<fileCache, reply, calls>>
    /\ UNCHANGED <<cvars, disk, client, pvars>>

\* The result object built without the timestamps collected.
ResultWithoutTimestamps(locals) ==
    [version |-> 0, totalLines |-> locals.totalLines, clusterer |-> locals.clusterer,
     timestamps |-> <<>>, timestampPattern |-> locals.pattern]

\* The locals of a pass as the result object.
Result(locals) ==
    [version |-> 0, totalLines |-> locals.totalLines, clusterer |-> locals.clusterer,
     timestamps |-> locals.timestamps, timestampPattern |-> locals.pattern]

\* Main pass over: the result is stored and the handler goes on with it.
MainEnd(p) ==
    /\ proc[p].phase = "main"
    /\ proc[p].pos = Len(Lines(p))
    /\ Resume(p, proc[p].req, proc[p].key,
              CacheSet(fileCache, proc[p].key, Result(proc[p])))
    /\ UNCHANGED calls
    /\ UNCHANGED <<cvars, disk, client, pvars>>

\* The re-read with every line offered.
OfferedAll(parent, line) == TRUE

\* parentCluster.similarity(line) >= 0.4
Offered(parent, line) == FracGE(similarity(parent, line), <<4, 10>>)

\* log_cluster_drill re-reads the file: one line is delivered.
DrillRead(p) ==
    /\ proc[p].phase = "drill"
    /\ proc[p].pos < Len(Lines(p))
    /\ proc' = [proc EXCEPT
                   ![p].pos = @ + 1,
                   ![p].clusterer =
                       IF Offered(proc[p].parent[1], Lines(p)[proc[p].pos + 1])
                       THEN add(@, Lines(p)[proc[p].pos + 1], Null).clusterer
                       ELSE @]
    /\ UNCHANGED <<fileCache, reply, calls>>
    /\ UNCHANGED <<cvars, disk, client, pvars>>

DrillEnd(p) ==
    /\ proc[p].phase = "drill"
    /\ proc[p].pos = Len(Lines(p))
    /\ Done(p, fileCache,
            Reply(proc[p].req.tool, "", proc[p].req.cluster_id,
                  proc[p].parent[1].template, proc[p].parent[1].count,
                  getStats(proc[p].clusterer), <<>>))
    /\ UNCHANGED calls
    /\ UNCHANGED <<cvars, disk, client, pvars>>

TimelineStep(p, ts) ==
    proc' = [proc EXCEPT
                ![p].pos = @ + 1,
                ![p].timestamps = IF ts # Null THEN Append(@, ts) ELSE @]

\* log_timeline with a cluster_id re-reads the file: one line is delivered.
TimelineRead(p) ==
    /\ proc[p].phase = "timeline"
    /\ proc[p].pos < Len(Lines(p))
    /\ IF Offered(proc[p].parent[1], Lines(p)[proc[p].pos + 1])
       THEN TimelineStep(p, extractTimestamp(Lines(p)[proc[p].pos + 1], proc[p].pattern))
       ELSE proc' = [proc EXCEPT ![p].pos = @ + 1]
    /\ UNCHANGED <<fileCache, reply, calls>>
    /\ UNCHANGED <<cvars, disk, client, pvars>>

TimelineEnd(p) ==
    /\ proc[p].phase = "timeline"
    /\ proc[p].pos = Len(Lines(p))
    /\ IF Len(proc[p].timestamps) = 0
       THEN Done(p, fileCache,
                 Reply(proc[p].req.tool, "No timestamps found", proc[p].req.cluster_id,
                       proc[p].parent[1].template, 0, <<>>, <<>>))
       ELSE Done(p, fileCache,
                 Reply(proc[p].req.tool, "", proc[p].req.cluster_id,
                       proc[p].parent[1].template, Len(proc[p].timestamps), <<>>,
                       Range(SortAsc(proc[p].timestamps))))
    /\ UNCHANGED calls
    /\ UNCHANGED <<cvars, disk, client, pvars>>

\* contextBuffer.push, then shift once it holds more than 2 * context_lines + 1.
Pushed(buffer, entry, context_lines) ==
    IF context_lines <= 0 THEN buffer
    ELSE IF Len(buffer) + 1 > context_lines * 2 + 1 THEN Tail(Append(buffer, entry))
    ELSE Append(buffer, entry)

Example(lineNum, line, buffer, context_lines) ==
    IF context_lines > 0
    THEN [line_num |-> lineNum, line |-> line,
          context |-> [k \in 1..Len(buffer) |-> buffer[k].line]]
    ELSE [line_num |-> lineNum, line |-> line, context |-> <<>>]

GrepStep(p, req, lineNum, line, buffer) ==
    proc' = [proc EXCEPT
                ![p].pos = lineNum,
                ![p].contextBuffer = buffer,
                ![p].count = IF GrepMatches(proc[p].filter, line) THEN @ + 1 ELSE @,
                ![p].examples =
                    IF GrepMatches(proc[p].filter, line) /\ Len(@) < req.max_examples
                    THEN Append(@, Example(lineNum, line, buffer, req.context_lines))
                    ELSE @]

\* log_grep reads the file: one line is delivered.
GrepRead(p) ==
    /\ proc[p].phase = "grep"
    /\ proc[p].pos < Len(Lines(p))
    /\ GrepStep(p, proc[p].req, proc[p].pos + 1, Lines(p)[proc[p].pos + 1],
                Pushed(proc[p].contextBuffer,
                       [lineNum |-> proc[p].pos + 1, line |-> Lines(p)[proc[p].pos + 1]],
                       proc[p].req.context_lines))
    /\ UNCHANGED <<fileCache, reply, calls>>
    /\ UNCHANGED <<cvars, disk, client, pvars>>

\* The result of log_grep: the pattern, total_matches and the examples.
GrepEnd(p) ==
    /\ proc[p].phase = "grep"
    /\ proc[p].pos = Len(Lines(p))
    /\ Done(p, fileCache,
            Reply(proc[p].req.tool, "", Null, proc[p].req.pattern, proc[p].count,
                  proc[p].examples, <<>>))
    /\ UNCHANGED calls
    /\ UNCHANGED <<cvars, disk, client, pvars>>

\* The read stream fails or the request is abandoned between two lines: the
\* exception leaves the handler, the dispatcher answers with isError.
Fail(p) ==
    /\ proc[p].phase # "idle"
    /\ Done(p,
            IF proc[p].phase \in {"sample", "main"}
            THEN CacheOnFailure(fileCache, proc[p].key, Result(proc[p]))
            ELSE fileCache,
            ErrorReply(proc[p].req.tool, "Error: read failed"))
    /\ UNCHANGED calls
    /\ UNCHANGED <<cvars, disk, client, pvars>>

InitTools ==
    /\ clusterer = LogClusterer([maxClusters |-> 0, threshold |-> <<0, 1>>])
    /\ InitClusterer
    /\ disk = AppDisk
    /\ client = Requests
    /\ InitServer
    /\ InitNoCall

NextServer ==
    \E p \in Procs :
        \/ Call(p)
        \/ SampleRead(p)
        \/ SampleEnd(p)
        \/ MainRead(p)
        \/ MainEnd(p)
        \/ DrillRead(p)
        \/ DrillEnd(p)
        \/ TimelineRead(p)
        \/ TimelineEnd(p)
        \/ Fail(p)

SpecServer == InitTools /\ [][NextServer]_vars

\* The same server started on the twelve-line file.
InitEvict ==
    /\ clusterer = LogClusterer([maxClusters |-> 0, threshold |-> <<0, 1>>])
    /\ InitClusterer
    /\ disk = BigDisk
    /\ client = EvictRequests
    /\ InitServer
    /\ InitNoCall

\* Its client calls log_cluster_drill and log_timeline only, and every read
\* of the file succeeds.
NextEvict ==
    \E p \in Procs :
        \/ Call(p)
        \/ SampleRead(p)
        \/ SampleEnd(p)
        \/ MainRead(p)
        \/ MainEnd(p)
        \/ DrillRead(p)
        \/ DrillEnd(p)
        \/ TimelineRead(p)
        \/ TimelineEnd(p)

SpecEvict == InitEvict /\ [][NextEvict]_vars

\* The session of a client that clusters and drills down.
InitDrill ==
    /\ clusterer = LogClusterer([maxClusters |-> 0, threshold |-> <<0, 1>>])
    /\ InitClusterer
    /\ disk = AppDisk
    /\ client = DrillRequests
    /\ InitServer
    /\ InitNoCall

NextDrill ==
    \E p \in Procs :
        \/ Call(p)
        \/ SampleRead(p)
        \/ SampleEnd(p)
        \/ MainRead(p)
        \/ MainEnd(p)
        \/ DrillRead(p)
        \/ DrillEnd(p)
        \/ Fail(p)

SpecDrill == InitDrill /\ [][NextDrill]_vars

\* The session of a client that searches and runs into each kind of {error}.
InitGrep ==
    /\ clusterer = LogClusterer([maxClusters |-> 0, threshold |-> <<0, 1>>])
    /\ InitClusterer
    /\ disk = AppDisk
    /\ client = GrepRequests
    /\ InitServer
    /\ InitNoCall

NextGrep ==
    \E p \in Procs :
        \/ Call(p)
        \/ SampleRead(p)
        \/ SampleEnd(p)
        \/ MainRead(p)
        \/ MainEnd(p)
        \/ TimelineRead(p)
        \/ TimelineEnd(p)
        \/ GrepRead(p)
        \/ GrepEnd(p)
        \/ Fail(p)

SpecGrep == InitGrep /\ [][NextGrep]_vars

(***************************************************************************)
(* Properties of the clusterer                                             *)
(***************************************************************************)
RECURSIVE WildCountFrom(_, _)
WildCountFrom(s, i) ==
    IF i > Len(s) THEN 0
    ELSE IF IsWildAt(s, i) THEN 1 + WildCountFrom(s, i + 2)
    ELSE WildCountFrom(s, i + 1)

WildCount(s) == WildCountFrom(s, 1)

Ids(cs) == {cs[k].id : k \in 1..Len(cs)}
LastCall == fed[Len(fed)]
Evicted == clusterer.nextId > clusterer.maxClusters

\* C1 (as stated): the counts of the resident clusters always sum to the
\* number of add calls made, eviction included.
C1_CountConservation == SumCount(clusterer.clusters) = adds

\* C1 (amended): the counts of the resident clusters sum to the number of add
\* calls until the first eviction; an eviction discards the count of the
\* evicted cluster, so from then on the sum is strictly smaller, never larger.
C1_CountUntilEviction ==
    /\ SumCount(clusterer.clusters) <= adds
    /\ ~Evicted => SumCount(clusterer.clusters) = adds
    /\ Evicted => SumCount(clusterer.clusters) < adds

C1_Witness ==
    /\ Evicted
    /\ \E k \in 1..Len(clusterer.clusters) : clusterer.clusters[k].count > 1
    /\ SumCount(clusterer.clusters) < adds

\* C2 (as stated): when add admits a line into an existing cluster, the
\* pattern of that cluster keeps at least as many .* markers as it had.
C2_TemplateGenerality ==
    [][clusterer'.nextId = clusterer.nextId =>
          \A k \in 1..Len(clusterer.clusters) :
              WildCount(clusterer'.clusters[k].template)
                  >= WildCount(clusterer.clusters[k].template)]_vars

\* C3: a new cluster opened at full capacity removes exactly one resident
\* cluster, the first (oldest) of those with the smallest count, before the
\* new one is appended; below capacity nothing is removed; after the 12
\* unrelated lines with max_clusters = 10 the clusters 0 and 1 are gone.
C3_EvictionStep ==
    LET cs == clusterer.clusters
        new == clusterer'.clusters[Len(clusterer'.clusters)]
    IN  clusterer'.nextId # clusterer.nextId =>
          /\ new.id = clusterer.nextId
          /\ new.count = 1
          /\ IF Len(cs) >= clusterer.maxClusters
             THEN \E i \in 1..Len(cs) :
                    /\ \A k \in 1..Len(cs) : cs[i].count <= cs[k].count
                    /\ \A k \in 1..(i - 1) : cs[k].count > cs[i].count
                    /\ clusterer'.clusters = RemoveAt(cs, i) \o <<new>>
             ELSE clusterer'.clusters = cs \o <<new>>

C3_ScenarioE ==
    (clusterer.maxClusters = DefaultMaxClusters /\ stream = Len(Unrelated)) =>
        /\ Len(clusterer.clusters) = DefaultMaxClusters
        /\ Ids(clusterer.clusters) = 2..(Len(Unrelated) - 1)

C3_Eviction == [][C3_EvictionStep]_vars /\ []C3_ScenarioE

\* An eviction that passed over an older, more populated cluster.
C3_Witness ==
    /\ clusterer.maxClusters = 2
    /\ Len(clusterer.clusters) = 2
    /\ clusterer.clusters[1].id = 0
    /\ clusterer.clusters[1].count = 2
    /\ clusterer.clusters[2].id = 2

\* C4: a clusterer built with max_clusters = k never holds more than k
\* clusters, and holds exactly k once k lines have opened a cluster.
C4_BoundedCapacity ==
    /\ Len(clusterer.clusters) <= clusterer.maxClusters
    /\ clusterer.nextId >= clusterer.maxClusters =>
           Len(clusterer.clusters) = clusterer.maxClusters

C4_Witness ==
    /\ clusterer.nextId > clusterer.maxClusters + 1
    /\ Len(clusterer.clusters) = clusterer.maxClusters

\* C5: resident ids are distinct, increase with insertion order and lie below
\* next_id; next_id never decreases; a new cluster gets the old next_id; an
\* id issued earlier and no longer resident is absent from get(id) for ever.
C5_IdsOrdered ==
    LET cs == clusterer.clusters
    IN  /\ \A k \in 1..Len(cs) : cs[k].id >= 0 /\ cs[k].id < clusterer.nextId
        /\ \A k, j \in 1..Len(cs) : k < j => cs[k].id < cs[j].id

C5_IdsStep ==
    /\ clusterer'.nextId >= clusterer.nextId
    /\ Ids(clusterer'.clusters) \ Ids(clusterer.clusters) \subseteq {clusterer.nextId}
    /\ \A id \in 0..(clusterer.nextId - 1) :
           getCluster(clusterer, id) = <<>> => getCluster(clusterer', id) = <<>>

C5_UniqueIds == []C5_IdsOrdered /\ [][C5_IdsStep]_vars

C5_Witness ==
    /\ clusterer.nextId > clusterer.maxClusters + 1
    /\ getCluster(clusterer, 0) = <<>>
    /\ getCluster(clusterer, clusterer.nextId - 1) # <<>>

\* C6: add admits the line into a resident cluster of highest merge
\* similarity whenever some resident cluster reaches the threshold, and opens
\* a new cluster only when none does.
C6_Step ==
    fed' # fed =>
        LET call == fed'[Len(fed')]
            cs == clusterer.clusters
            sim(k) == similarity(cs[k], call.line)
            reach == {k \in 1..Len(cs) : FracGE(sim(k), clusterer.threshold)}
        IN  IF reach # {}
            THEN /\ clusterer'.nextId = clusterer.nextId
                 /\ \E k \in reach :
                      /\ \A j \in 1..Len(cs) : FracGE(sim(k), sim(j))
                      /\ call.id = cs[k].id
                      /\ clusterer'.clusters[k].count = cs[k].count + 1
                      /\ \A j \in 1..Len(cs) :
                             j # k => clusterer'.clusters[j] = cs[j]
            ELSE /\ clusterer'.nextId = clusterer.nextId + 1
                 /\ call.id = clusterer.nextId

C6_BestAdmission == [][C6_Step]_vars

\* "aa cc dd" reaches the threshold on both clusters and joins the second.
C6_Witness ==
    /\ adds = 3
    /\ fed[1].line = LineAB /\ fed[2].line = LineCD /\ fed[3].line = LineACD
    /\ clusterer.threshold = DefaultThreshold
    /\ Len(clusterer.clusters) = 2
    /\ fed[3].id = 1
    /\ clusterer.clusters[2].count = 2

\* C7 (as stated): the same line added N >= 1 times to a fresh clusterer
\* gives one cluster with count N and template equal to the line.
C7_IdenticalLines ==
    (adds >= 1 /\ \A i \in 1..adds : fed[i].line = fed[1].line) =>
        /\ Len(clusterer.clusters) = 1
        /\ clusterer.clusters[1].count = adds
        /\ clusterer.clusters[1].template = fed[1].line


(***************************************************************************)
(* Properties of the session cache                                         *)
(***************************************************************************)
Filtered(filter) == SelectSeq(FileLines, LAMBDA l : Passes(l, filter))

Sample(lines) ==
    SubSeq(lines, 1, IF Len(lines) < SampleLimit THEN Len(lines) ELSE SampleLimit)

IngestLine(locals, line, ts) ==
    [locals EXCEPT
        !.totalLines = @ + 1,
        !.clusterer = add(@, line, ts).clusterer,
        !.timestamps = IF ts # Null THEN Append(@, ts) ELSE @]

RECURSIVE IngestFrom(_, _, _)
IngestFrom(lines, i, locals) ==
    IF i > Len(lines) THEN locals
    ELSE IngestFrom(lines, i + 1,
                    IngestLine(locals, lines[i], extractTimestamp(lines[i], locals.pattern)))

\* What a pass for key yields when it reads every line of the file.
CompletePass(key) ==
    IngestFrom(Filtered(key[4]), 1,
               [totalLines |-> 0,
                clusterer |-> LogClusterer([maxClusters |-> key[2], threshold |-> key[3]]),
                timestamps |-> <<>>,
                pattern |-> detectTimestampFormat(Sample(Filtered(key[4])))])

Keys == {KeyOf(req) : req \in Requests \cup DrillRequests \cup GrepRequests}

Complete == [k \in Keys |-> CompletePass(k)]

\* The timestamps are compared as a bag: log_overview and log_timeline sort
\* the stored array in place.
EntryComplete(entry, full) ==
    /\ entry.totalLines = full.totalLines
    /\ entry.clusterer = full.clusterer
    /\ entry.timestampPattern = full.pattern
    /\ Len(entry.timestamps) = Len(full.timestamps)
    /\ SortAsc(entry.timestamps) = SortAsc(full.timestamps)

ReadFailed == reply.error = "Error: read failed"

\* C8: whatever the interleaving of the invocations at their file reads, and
\* whichever passes fail or are abandoned between two lines, every entry of
\* the cache holds the line count, the clusterer, the recognizer and all the
\* timestamps of a pass over every line of the file; no partial clusterer or
\* partial timestamp list is stored.
C8_OnlyCompletePasses ==
    \A k \in DOMAIN fileCache : EntryComplete(fileCache[k], Complete[k])

\* C8 witness: an invocation has just failed and the cache holds an entry.
C8_Witness ==
    /\ DOMAIN fileCache # {}
    /\ ReadFailed

\* C9: an entry of the cache is stored anew only when a pass of a request
\* that set force_refresh completes for its key; no other event removes or
\* replaces an entry.
C9_OnlyForceRefreshReplaces ==
    [][\A k \in DOMAIN fileCache :
          \/ /\ k \in DOMAIN fileCache'
             /\ fileCache'[k].version = fileCache[k].version
          \/ \E p \in Procs :
                /\ proc[p].phase = "main"
                /\ proc[p].key = k
                /\ proc[p].req.forceRefresh
                /\ proc'[p].phase # "main"]_vars

ClusterReplied == reply.tool = "log_cluster" /\ reply.error = ""

\* C10: when log_cluster has just answered for the file, a log_timeline or
\* log_cluster_drill call on that file never starts an ingest pass, whatever
\* max_clusters, threshold and filter log_cluster was called with.
C10_DrillAndTimelineReuse ==
    [][\A p \in Procs :
          (/\ ClusterReplied
           /\ proc[p].phase = "idle"
           /\ proc'[p].req.tool \in {"log_cluster_drill", "log_timeline"})
          => proc'[p].phase # "sample"]_vars


(***************************************************************************)
(* Properties of the tools                                                 *)
(***************************************************************************)
\* The invocation in slot p returns its result in this step.
AnsweredBy(p) ==
    /\ proc'[p].phase = "idle"
    /\ \/ proc[p].phase # "idle"
       \/ /\ calls' # calls
          /\ proc[p].phase = "idle"
          /\ \A q \in Procs : q < p => proc[q].phase # "idle"

\* The result the client had last received when it sent the request in slot p.
Known(p) == IF proc[p].phase = "idle" THEN reply ELSE proc[p].seen

Reported(r, id) ==
    /\ r.tool = "log_cluster"
    /\ r.error = ""
    /\ \E k \in 1..Len(r.clusters) : r.clusters[k].id = id

ReportedCluster(r, id) ==
    r.clusters[CHOOSE k \in 1..Len(r.clusters) : r.clusters[k].id = id]

Echoes(r, c) ==
    /\ r.template = c.template
    /\ r.tool = "log_cluster_drill" => r.error = "" /\ r.total_lines = c.count

\* C11: when the last result the client received is a log_cluster result that
\* lists a cluster id, a log_cluster_drill or log_timeline call with that id
\* echoes the template (and the drill the count) log_cluster listed under it.
C11_SameCluster ==
    [][\A p \in Procs :
          (/\ AnsweredBy(p)
           /\ reply'.tool \in {"log_cluster_drill", "log_timeline"}
           /\ reply'.cluster_id # Null
           /\ Reported(Known(p), reply'.cluster_id))
          => Echoes(reply', ReportedCluster(Known(p), reply'.cluster_id))]_vars


\* The drill in slot p returns its sub-clusters in this step.
DrillAnswered(p) ==
    /\ proc[p].phase = "drill"
    /\ AnsweredBy(p)
    /\ reply'.error = ""

\* The lines of the file whose similarity to the parent's template is at
\* least 0.4.
OfferedLines(parent) ==
    {k \in 1..Len(FileLines) : FracGE(similarity(parent, FileLines[k]), <<4, 10>>)}

\* C12 as stated: the counts of the sub-clusters a drill returns sum to the
\* parent_count it echoes.
C12_SumIsParentCount ==
    [][\A p \in Procs :
          DrillAnswered(p) => SumCount(reply'.clusters) = reply'.total_lines]_vars

\* C12 amended: the counts of the sub-clusters never exceed the number of
\* lines of the file offered to the sub-clusterer, and equal it when the
\* sub-clusterer opened no more than max_subclusters clusters.
C12_SumIsOfferedUnlessEvicted ==
    [][\A p \in Procs :
          DrillAnswered(p) =>
             /\ SumCount(reply'.clusters) <= Cardinality(OfferedLines(proc[p].parent[1]))
             /\ proc[p].clusterer.nextId <= proc[p].clusterer.maxClusters =>
                   SumCount(reply'.clusters)
                       = Cardinality(OfferedLines(proc[p].parent[1]))]_vars

\* C12 witness: a drill has returned two sub-clusters of one line each.
C12_Witness ==
    /\ reply.tool = "log_cluster_drill"
    /\ reply.error = ""
    /\ Len(reply.clusters) = 2
    /\ SumCount(reply.clusters) = 2


\* The sub-clusterer after lines i.. of the file prefix, in file order: a
\* line is added iff its merge similarity to the parent's template is at
\* least 0.4.
RECURSIVE DrillFold(_, _, _, _)
DrillFold(parent, lines, i, sub) ==
    IF i > Len(lines) THEN sub
    ELSE DrillFold(parent, lines, i + 1,
                   IF FracGE(mergeWithTemplate([template |-> parent.template,
                                                staticParts |-> parent.staticParts],
                                               lines[i]).similarity,
                             <<4, 10>>)
                   THEN add(sub, lines[i], Null).clusterer
                   ELSE sub)

\* C13: while a drill re-reads the file, its sub-clusterer is the one that a
\* fresh clusterer with threshold 0.5 and max_clusters = max_subclusters
\* becomes when it is fed, in file order, exactly the lines read so far
\* whose similarity to the parent's template is at least 0.4.
C13_DrillProtocol ==
    \A p \in Procs :
        proc[p].phase = "drill" =>
            proc[p].clusterer
                = DrillFold(proc[p].parent[1], SubSeq(FileLines, 1, proc[p].pos), 1,
                            [threshold |-> <<5, 10>>,
                             maxClusters |-> proc[p].req.max_subclusters,
                             clusters |-> <<>>, nextId |-> 0])

\* C13 witness: a drill has read the whole file, was offered two of its
\* three lines and holds them as two sub-clusters.
C13_Witness ==
    \E p \in Procs :
        /\ proc[p].phase = "drill"
        /\ proc[p].pos = Len(FileLines)
        /\ Cardinality(OfferedLines(proc[p].parent[1])) = 2
        /\ Len(proc[p].clusterer.clusters) = 2


DrillOrTimeline == {"log_cluster_drill", "log_timeline"}

IsUnknownCluster(r) ==
    r.error \in {"Cluster not found. Run log_cluster first.", "Cluster not found"}

\* The clusters of the clusterer that log_cluster_drill and log_timeline
\* consult: the one stored for a file under the default settings.
Consulted(cache) ==
    UNION {{cache[k].clusterer.clusters[i] : i \in 1..Len(cache[k].clusterer.clusters)} :
              k \in {CacheKey(f, DefaultMaxClusters, DefaultThreshold, NoFilter) :
                        f \in DOMAIN disk} \cap DOMAIN cache}

Resident(cache, id) == \E c \in Consulted(cache) : c.id = id

\* C14: a log_cluster_drill or log_timeline call that names a cluster id
\* answers with the unknown-cluster {error}, and with no sub-clusters and no
\* time range, exactly when no cluster of the consulted clusterer has that
\* id; it starts its re-read of the file only for an id that is resident.
C14_UnknownCluster ==
    [][\A p \in Procs :
          /\ (/\ AnsweredBy(p)
              /\ reply'.tool \in DrillOrTimeline
              /\ reply'.cluster_id # Null)
             => /\ IsUnknownCluster(reply') <=> ~Resident(fileCache', reply'.cluster_id)
                /\ IsUnknownCluster(reply') =>
                      reply'.clusters = <<>> /\ reply'.time_range = <<>>
          /\ (/\ proc[p].phase \notin {"drill", "timeline"}
              /\ proc'[p].phase \in {"drill", "timeline"})
             => /\ Resident(fileCache', proc'[p].req.cluster_id)
                /\ proc'[p].parent[1].id = proc'[p].req.cluster_id]_vars

\* C14 witness: the clusterer has issued the ids 0..10 and evicted id 1; the
\* drill on id 1 has just answered with the unknown-cluster error while id 0
\* is resident.
C14_Witness ==
    /\ reply.tool = "log_cluster_drill"
    /\ IsUnknownCluster(reply)
    /\ reply.cluster_id = 1
    /\ Resident(fileCache, 0)
    /\ ~Resident(fileCache, 1)
    /\ \A k \in DOMAIN fileCache : fileCache[k].clusterer.nextId = 11


\* A pattern enclosed in forward slashes: one before and one after its body.
Enclosed(pattern) ==
    /\ Len(pattern) >= 2
    /\ pattern[1] = "/"
    /\ pattern[Len(pattern)] = "/"

\* The lines of app.log a pattern selects: as a regular expression when it
\* is enclosed in slashes, as a substring otherwise.
Selected(pattern) ==
    {k \in 1..Len(FileLines) :
        IF Enclosed(pattern) THEN RegexTest(Slice1(pattern), FileLines[k])
        ELSE Includes(FileLines[k], pattern)}

\* C16: log_grep with a malformed regular expression between slashes answers
\* {error: "Invalid regex"} in the step of the call, before any read, with
\* the cache as it was; with any other pattern it counts the lines that the
\* pattern selects, as a regular expression when it is enclosed in slashes
\* and as a substring otherwise.
C16_GrepPatternLanguage ==
    [][\A p \in Procs :
          (/\ AnsweredBy(p)
           /\ reply'.tool = "log_grep"
           /\ reply'.error \in {"", "Invalid regex"})
          => IF Enclosed(reply'.template) /\ ~RegexValid(Slice1(reply'.template), 1)
             THEN /\ reply'.error = "Invalid regex"
                  /\ calls' # calls
                  /\ fileCache' = fileCache
             ELSE /\ reply'.error = ""
                  /\ reply'.total_lines = Cardinality(Selected(reply'.template))]_vars


\* An {error} result of a handler (not the isError answer of the dispatcher).
IsErrorResult(r) == r.error \notin {"", "Error: read failed"}

\* C15 as stated: an invocation that answers with an {error} result has not
\* written the cache.
C15_ErrorLeavesCache ==
    [][\A p \in Procs :
          (AnsweredBy(p) /\ IsErrorResult(reply'))
          => fileCache' = fileCache /\ ~proc[p].wrote]_vars

\* C15 amended: a file-not-found or invalid-regex result is given in the step
\* of the call with the cache as it was; the step of any other {error}
\* result changes the cache at most by storing, under the key the
\* invocation ingested for, the result of a pass over every line.
C15_ErrorStoresOnlyCompleteIngest ==
    [][\A p \in Procs :
          (AnsweredBy(p) /\ IsErrorResult(reply'))
          => /\ reply'.error \in {"File not found", "Invalid regex"}
                => fileCache' = fileCache /\ calls' # calls
             /\ \A k \in DOMAIN fileCache' :
                   \/ k \in DOMAIN fileCache /\ fileCache'[k] = fileCache[k]
                   \/ /\ proc[p].phase = "main"
                      /\ k = proc[p].key
                      /\ EntryComplete(fileCache'[k], Complete[k])]_vars

\* C15 witness: the only invocation so far was a log_cluster_drill that
\* answered with the unknown-cluster error, and the cache holds the entry its
\* ingest stored.
C15_Witness ==
    /\ calls = 1
    /\ \A p \in Procs : proc[p].phase = "idle"
    /\ reply.tool = "log_cluster_drill"
    /\ IsUnknownCluster(reply)
    /\ DOMAIN fileCache # {}


\* x brought into [2, 20] and t into [0.1, 0.9].
InRangeClusters(x) == IF x < 2 THEN 2 ELSE IF x > 20 THEN 20 ELSE x

InRangeThreshold(t) ==
    IF FracGT(<<1, 10>>, t) THEN <<1, 10>>
    ELSE IF FracGT(t, <<9, 10>>) THEN <<9, 10>>
    ELSE t

ClusterIngest(p) ==
    proc[p].req.tool = "log_cluster" /\ proc[p].phase \in {"sample", "main"}

units ==
    << [name |-> "second", size |-> 1],
       [name |-> "minute", size |-> 60],
       [name |-> "5min",   size |-> 5 * 60],
       [name |-> "15min",  size |-> 15 * 60],
       [name |-> "hour",   size |-> 60 * 60],
       [name |-> "6hour",  size |-> 6 * 60 * 60],
       [name |-> "day",    size |-> 24 * 60 * 60],
       [name |-> "week",   size |-> 7 * 24 * 60 * 60],
       [name |-> "month",  size |-> 30 * 24 * 60 * 60] >>

\* unit.ms < targetBucketMs, the strict comparison.
QualifiesStrictly(unit, diff, targetBuckets) ==
    IF targetBuckets > 0 THEN unit.size * targetBuckets < diff
    ELSE IF targetBuckets < 0 THEN unit.size * targetBuckets > diff
    ELSE diff > 0

\* unit.ms <= targetBucketMs, where targetBucketMs = diffMs / targetBuckets
\* is a floating-point quotient: the comparison is made on the products.
\* Dividing by zero gives Infinity for a positive diff, and NaN or -Infinity,
\* which no unit is below, otherwise.  diff is in whole seconds: for an
\* integer targetBuckets the milliseconds of diffMs beyond a whole second do
\* not change the comparison with a whole number of seconds.
Qualifies(unit, diff, targetBuckets) ==
    IF targetBuckets > 0 THEN unit.size * targetBuckets <= diff
    ELSE IF targetBuckets < 0 THEN unit.size * targetBuckets >= diff
    ELSE diff > 0

\* let best = units[0]; for (const unit of units) if (...) best = unit
RECURSIVE BestUnit(_, _, _, _)
BestUnit(i, best, diff, targetBuckets) ==
    IF i > Len(units) THEN best
    ELSE BestUnit(i + 1,
                  IF Qualifies(units[i], diff, targetBuckets) THEN units[i] ELSE best,
                  diff, targetBuckets)

calculateBucketSize(minDate, maxDate, targetBuckets) ==
    LET best == BestUnit(1, units[1], maxDate - minDate, targetBuckets)
    IN  [size |-> best.size, unit |-> best.name]

\* while (currentStart <= maxTime) { buckets.push(...); currentStart += size }
RECURSIVE EmptyBuckets(_, _, _)
EmptyBuckets(currentStart, maxTime, size) ==
    IF currentStart <= maxTime
    THEN <<[start |-> currentStart, end |-> currentStart + size, count |-> 0]>>
         \o EmptyBuckets(currentStart + size, maxTime, size)
    ELSE <<>>

\* The counting loop of buildHistogram with bucketIdx > 0 for bucketIdx >= 0.
RECURSIVE FillBucketsAfterFirst(_, _, _, _)
FillBucketsAfterFirst(buckets, sorted, size, i) ==
    IF i > Len(sorted) THEN buckets
    ELSE FillBucketsAfterFirst(
             IF /\ (sorted[i] - buckets[1].start) \div size > 0
                /\ (sorted[i] - buckets[1].start) \div size < Len(buckets)
             THEN [buckets EXCEPT
                      ![(sorted[i] - buckets[1].start) \div size + 1].count = @ + 1]
             ELSE buckets,
             sorted, size, i + 1)

\* for (const ts of sorted) { bucketIdx = floor((ts - buckets[0].start) / size);
\* if (bucketIdx >= 0 && bucketIdx < buckets.length) buckets[bucketIdx].count++ }
RECURSIVE FillBuckets(_, _, _, _)
FillBuckets(buckets, sorted, size, i) ==
    IF i > Len(sorted) THEN buckets
    ELSE FillBuckets(
             IF /\ (sorted[i] - buckets[1].start) \div size >= 0
                /\ (sorted[i] - buckets[1].start) \div size < Len(buckets)
             THEN [buckets EXCEPT
                      ![(sorted[i] - buckets[1].start) \div size + 1].count = @ + 1]
             ELSE buckets,
             sorted, size, i + 1)

\* A timestamp is the integer of getTime(); \div rounds down as Math.floor.
buildHistogram(timestamps, bucket) ==
    IF Len(timestamps) = 0 THEN <<>>
    ELSE FillBuckets(
             EmptyBuckets((SortAsc(timestamps)[1] \div bucket.size) * bucket.size,
                          SortAsc(timestamps)[Len(timestamps)], bucket.size),
             SortAsc(timestamps), bucket.size, 1)

(***************************************************************************)
(* One call of calculateBucketSize or of buildHistogram                    *)
(***************************************************************************)
MaxStamps == 3
MaxTime == 4
MaxSize == 3

Times == (1 - MaxTime) .. MaxTime
TimestampLists == UNION {[1..n -> Times] : n \in 0..MaxStamps}
Buckets == {[size |-> s, unit |-> "unit"] : s \in 1..MaxSize}

\* 20 is the default of calculateBucketSize, 15 what the command line passes.
Targets == {1, 15, 20}
Epoch == 1700000000
\* The spans at which a unit starts to qualify and the second before, no
\* span, a negative span and an hour.
Spans ==
    {units[i].size * t - d : i \in 1..Len(units), t \in Targets, d \in {0, 1}}
        \cup {0, 0 - 5, 60 * 60}

MaxSample == 3

LineIso ==
    <<"2", "0", "2", "4", "-", "0", "1", "-", "1", "5", "T", "1", "0", ":",
      "3", "0", ":", "0", "0">>
LineSimple ==
    <<"2", "0", "2", "4", "-", "0", "1", "-", "1", "5", " ", "1", "0", ":",
      "3", "0", ":", "0", "0">>
LineMonth13 ==
    <<"2", "0", "2", "4", "-", "1", "3", "-", "1", "5", " ", "1", "0", ":",
      "3", "0", ":", "0", "0">>
LineEpochBoth ==
    <<"1", "7", "0", "0", "0", "0", "0", "0", "0", "0", " ", "1", "7", "0",
      "0", "0", "0", "0", "0", "0", "0", "0", "0", "0">>

\* A line only iso8601 matches, a line iso8601 and simple match, one they
\* match whose month is 13, a line of epoch_s and epoch_ms, and a line
\* without a timestamp.
SampleLines == {LineIso, LineSimple, LineMonth13, LineEpochBoth, LineAB}

DetectArgs ==
    {[fn |-> "detectTimestampFormat", sampleLines |-> sample] :
        sample \in UNION {[1..n -> SampleLines] : n \in 0..MaxSample}}

HistogramArgs ==
    {[fn |-> "buildHistogram", timestamps |-> ts, bucket |-> b] :
        ts \in TimestampLists, b \in Buckets}
BucketSizeArgs ==
    {[fn |-> "calculateBucketSize", minDate |-> m, maxDate |-> m + d,
      targetBuckets |-> t] : m \in {0, Epoch}, d \in Spans, t \in Targets}

InitTimestamps ==
    /\ clusterer = LogClusterer([maxClusters |-> 0, threshold |-> <<0, 1>>])
    /\ InitClusterer
    /\ disk = AppDisk
    /\ client = Requests
    /\ InitServer
    /\ input \in HistogramArgs \cup BucketSizeArgs \cup DetectArgs
    /\ output = NoResult

Returned == output # NoResult

CalculateBucketSize ==
    /\ input.fn = "calculateBucketSize"
    /\ ~Returned
    /\ output' = <<calculateBucketSize(input.minDate, input.maxDate, input.targetBuckets)>>
    /\ UNCHANGED <<cvars, svars, input>>

BuildHistogram ==
    /\ input.fn = "buildHistogram"
    /\ ~Returned
    /\ output' = <<buildHistogram(input.timestamps, input.bucket)>>
    /\ UNCHANGED <<cvars, svars, input>>

DetectTimestampFormat ==
    /\ input.fn = "detectTimestampFormat"
    /\ ~Returned
    /\ output' = <<detectTimestampFormat(input.sampleLines)>>
    /\ UNCHANGED <<cvars, svars, input>>

NextTimestamps == CalculateBucketSize \/ BuildHistogram \/ DetectTimestampFormat

SpecTimestamps == InitTimestamps /\ [][NextTimestamps]_vars

(***************************************************************************)
(* C18: for every non-empty list of timestamps and every positive bucket   *)
(* size, buildHistogram returns buckets of constant width (end - start =   *)
(* size), each starting where the one before ends, the first starting at   *)
(* the multiple of the size at or next below the minimum, the last         *)
(* containing the maximum; every timestamp lies in exactly one bucket,     *)
(* each bucket counts the timestamps that lie in it, and the counts add up *)
(* to the number of timestamps.                                            *)
(***************************************************************************)
Within(ts, b) == b.start <= ts /\ ts < b.end

Least(ts) == CHOOSE i \in DOMAIN ts : \A j \in DOMAIN ts : ts[i] <= ts[j]
Greatest(ts) == CHOOSE i \in DOMAIN ts : \A j \in DOMAIN ts : ts[j] <= ts[i]

RECURSIVE SumBuckets(_, _)
SumBuckets(buckets, i) ==
    IF i > Len(buckets) THEN 0 ELSE buckets[i].count + SumBuckets(buckets, i + 1)

Coverage(ts, size, buckets) ==
    /\ Len(buckets) >= 1
    /\ \A i \in DOMAIN buckets : buckets[i].end - buckets[i].start = size
    /\ \A i \in 2..Len(buckets) : buckets[i].start = buckets[i - 1].end
    /\ buckets[1].start % size = 0
    /\ Within(ts[Least(ts)], buckets[1])
    /\ Within(ts[Greatest(ts)], buckets[Len(buckets)])
    /\ \A j \in DOMAIN ts :
           Cardinality({i \in DOMAIN buckets : Within(ts[j], buckets[i])}) = 1
    /\ \A i \in DOMAIN buckets :
           buckets[i].count = Cardinality({j \in DOMAIN ts : Within(ts[j], buckets[i])})
    /\ SumBuckets(buckets, 1) = Len(ts)

HistogramBuilt == Returned /\ input.fn = "buildHistogram"

C18_BucketCoverage ==
    (HistogramBuilt /\ Len(input.timestamps) >= 1)
        => Coverage(input.timestamps, input.bucket.size, output[1])

\* Unsorted timestamps with a repeat, the minimum negative and off the grid,
\* the maximum on the start of the last bucket, and an empty bucket between.
C18_Witness ==
    /\ HistogramBuilt
    /\ input.timestamps = <<4, 0 - 3, 4>>
    /\ input.bucket.size = 2
    /\ Len(output[1]) = 5
    /\ output[1][1].start = 0 - 4
    /\ output[1][5].count = 2
    /\ output[1][3].count = 0

(***************************************************************************)
(* C20: calculateBucketSize(min, max, target) returns the largest size of  *)
(* {1 s, 1 min, 5 min, 15 min, 1 h, 6 h, 1 d, 1 w, 30 d} that is at most   *)
(* (max - min) / target, and 1 s when no size is; the size is never zero;  *)
(* for a span of exactly one hour and a target of 20 it is one minute.     *)
(* The target is a positive number of buckets.                             *)
(***************************************************************************)
CanonicalSizes == {1, 60, 300, 900, 3600, 21600, 86400, 604800, 2592000}

AtMostQuotient(size, span, target) == size * target <= span

Largest(S) == CHOOSE x \in S : \A y \in S : y <= x

BucketSizeReturned == Returned /\ input.fn = "calculateBucketSize"

Fitting(span, target) == {s \in CanonicalSizes : AtMostQuotient(s, span, target)}

WellFormed(k, sample) ==
    Cardinality({i \in DOMAIN sample :
                    /\ RegexMatch(TIMESTAMP_PATTERNS[k], sample[i]) # <<>>
                    /\ ParseDate(TIMESTAMP_PATTERNS[k],
                                 RegexMatch(TIMESTAMP_PATTERNS[k], sample[i])) # Null})

Highest(k, sample) ==
    /\ \A j \in DOMAIN TIMESTAMP_PATTERNS : WellFormed(j, sample) <= WellFormed(k, sample)
    /\ \A j \in 1..(k - 1) : WellFormed(j, sample) < WellFormed(k, sample)

FormatDetected == Returned /\ input.fn = "detectTimestampFormat"

C21_FormatDetection ==
    FormatDetected =>
        /\ \A k \in DOMAIN TIMESTAMP_PATTERNS :
               (Highest(k, input.sampleLines)
                    /\ 2 * WellFormed(k, input.sampleLines) > Len(input.sampleLines))
                   => output[1] = TIMESTAMP_PATTERNS[k]
        /\ (\A k \in DOMAIN TIMESTAMP_PATTERNS :
                2 * WellFormed(k, input.sampleLines) <= Len(input.sampleLines))
               => output[1] = NoPattern
        /\ Len(input.sampleLines) = 0 => output[1] = NoPattern

\* iso8601 and simple both match all three lines and parse two of them:
\* the earlier of the catalogue is returned.
C21_Witness ==
    /\ FormatDetected
    /\ input.sampleLines = <<LineSimple, LineMonth13, LineSimple>>
    /\ WellFormed(1, input.sampleLines) = 2
    /\ WellFormed(4, input.sampleLines) = 2
    /\ output[1] = "iso8601"

(***************************************************************************)
(* One LogClusterer fed long enough to fill the examples of a cluster      *)
(***************************************************************************)
MaxBurst == 7

BurstLines == {LineAB, LineACD, Unrelated[1]}

InitExamples ==
    /\ \E k \in {1, 2} :
           clusterer = LogClusterer([maxClusters |-> k, threshold |-> <<4, 10>>])
    /\ InitClusterer
    /\ disk = AppDisk
    /\ client = Requests
    /\ InitServer
    /\ InitNoCall

AddBurst ==
    /\ adds < MaxBurst
    /\ \E line \in BurstLines : Add(line, Null)
    /\ UNCHANGED stream
    /\ UNCHANGED <<svars, pvars>>

NextExamples == AddBurst

SpecExamples == InitExamples /\ [][NextExamples]_vars

(***************************************************************************)
(* C19: for every resident cluster after any sequence of add calls, count  *)
(* is at least 1 and is the number of lines the cluster took, examples     *)
(* holds exactly the first min(count, 5) of these lines in the order they  *)
(* were taken, and examples[0] is the line that opened the cluster; a line *)
(* admitted after the fifth leaves examples as they were.                  *)
(***************************************************************************)
\* The lines of the add calls that returned the id, in call order.
TakenBy(id) ==
    LET Took(e) == e.id = id
    IN  [i \in 1..Len(SelectSeq(fed, Took)) |-> SelectSeq(fed, Took)[i].line]

Least5(n) == IF n < 5 THEN n ELSE 5

ExamplesOf(c) ==
    /\ c.count >= 1
    /\ c.count = Len(TakenBy(c.id))
    /\ Len(c.examples) = Least5(c.count)
    /\ c.examples = SubSeq(TakenBy(c.id), 1, Least5(c.count))
    /\ c.examples[1] = TakenBy(c.id)[1]

ExamplesKept ==
    \A i \in DOMAIN clusterer.clusters : ExamplesOf(clusterer.clusters[i])

\* A cluster that already counts five lines or more keeps its examples
\* through the step.
ExamplesFrozen ==
    \A i \in DOMAIN clusterer.clusters, j \in DOMAIN clusterer'.clusters :
        (/\ clusterer.clusters[i].id = clusterer'.clusters[j].id
         /\ clusterer.clusters[i].count >= 5)
            => clusterer'.clusters[j].examples = clusterer.clusters[i].examples

C19_Examples == []ExamplesKept /\ [][ExamplesFrozen]_vars

\* A cluster has taken seven lines, the sixth and the seventh unlike its
\* fifth example, and holds the first five.
C19_Witness ==
    \E i \in DOMAIN clusterer.clusters :
        /\ clusterer.clusters[i].count = 7
        /\ Len(clusterer.clusters[i].examples) = 5
        /\ TakenBy(clusterer.clusters[i].id)[6] # clusterer.clusters[i].examples[5]
        /\ TakenBy(clusterer.clusters[i].id)[7] # clusterer.clusters[i].examples[5]
        /\ clusterer.clusters[i].examples[1] # clusterer.clusters[i].examples[2]

(***************************************************************************)
(* tokenize, findMatchingTokenBlocks and extractTemplate called on their   *)
(* own, and one LogClusterer fed lines with punctuation                    *)
(***************************************************************************)
MaxLen == 3
MaxPieces == 3
MaxMerges == 3

\* Two word characters, whitespace, and two characters that are neither.
TextChars == {"a", "0", " ", "-", NUL}
Strings == UNION {[1..n -> TextChars] : n \in 0..MaxLen}

\* A word of two characters, a word of one, whitespace; the longer lines
\* below bring the punctuation.
Pieces == {<<"a", "a">>, <<"b">>, <<" ">>}

RECURSIVE PieceLines(_)
PieceLines(n) ==
    IF n = 0 THEN {<<>>}
    ELSE PieceLines(n - 1) \cup {l \o a : l \in PieceLines(n - 1), a \in Pieces}

LineJohn ==
    <<"U", "s", "e", "r", " ", "j", "o", "h", "n", " ", "l", "o", "g", "g",
      "e", "d", " ", "i", "n", " ", "f", "r", "o", "m", " ", "1", "9", "2",
      ".", "1", "6", "8", ".", "1", ".", "1">>
LineAdmin ==
    <<"U", "s", "e", "r", " ", "a", "d", "m", "i", "n", " ", "l", "o", "g",
      "g", "e", "d", " ", "i", "n", " ", "f", "r", "o", "m", " ", "1", "0",
      ".", "0", ".", "0", ".", "5">>
LineDash == <<"a", "a", "-", "b", "b">>
LineTurned == <<"b", "b", " ", "a", "a", "-">>
LineGap == <<"a", "a", "-", "z", "z", " ", "b", "b">>
LineStarZ == <<"z", "z", ".", "*", "a", "a">>
LineStarQ == <<"q", "q", ".", "*", "a", "a">>
LineStars == <<"a", "a", ".", "*", ".", "*">>
LineDashQ == <<"a", "a", "-", "q", "q", "-", "b", "b">>
LineDashZ == <<"a", "a", "-", "z", "z", "-", "b", "b">>
LineDashes == <<"a", "a", "-", "-", "b", "b">>
LineDashC == <<"a", "a", "-", "c", "c", "-", "b", "b">>

TextLines ==
    PieceLines(MaxPieces)
        \cup {LineJohn, LineAdmin, LineDash, LineTurned, LineGap, LineStarZ,
              LineStarQ}

MergeLines ==
    {LineAB, LineACD, LineEmpty, LineStars, LineStarZ, LineStarQ,
     LineDashQ, LineDashZ, LineDashC, LineDashes}

TokenizeArgs == {[fn |-> "tokenize", str |-> s] : s \in Strings}
BlockArgs ==
    {[fn |-> "findMatchingTokenBlocks", tokensA |-> tokenize(a), tokensB |-> tokenize(b)] :
        a \in TextLines, b \in TextLines}
ExtractArgs ==
    {[fn |-> "extractTemplate", a |-> a, b |-> b] : a \in TextLines, b \in TextLines}
AddArgs == [fn |-> "add"]

InitText ==
    /\ InitClusterer
    /\ disk = AppDisk
    /\ client = Requests
    /\ InitServer
    /\ output = NoResult
    /\ \/ /\ input \in TokenizeArgs \cup BlockArgs \cup ExtractArgs
          /\ clusterer = LogClusterer([maxClusters |-> 0, threshold |-> <<0, 1>>])
       \/ /\ input = AddArgs
          /\ \E t \in ThresholdOptions :
                 clusterer = LogClusterer([maxClusters |-> 0, threshold |-> t])

Tokenize ==
    /\ input.fn = "tokenize"
    /\ ~Returned
    /\ output' = <<tokenize(input.str)>>
    /\ UNCHANGED <<cvars, svars, input>>

FindMatchingTokenBlocks ==
    /\ input.fn = "findMatchingTokenBlocks"
    /\ ~Returned
    /\ output' = <<findMatchingTokenBlocks(input.tokensA, input.tokensB)>>
    /\ UNCHANGED <<cvars, svars, input>>

ExtractTemplate ==
    /\ input.fn = "extractTemplate"
    /\ ~Returned
    /\ output' = <<extractTemplate(input.a, input.b)>>
    /\ UNCHANGED <<cvars, svars, input>>

AddText ==
    /\ input.fn = "add"
    /\ adds < MaxMerges
    /\ \E line \in MergeLines : Add(line, Null)
    /\ UNCHANGED stream
    /\ UNCHANGED <<svars, pvars>>

NextText == Tokenize \/ FindMatchingTokenBlocks \/ ExtractTemplate \/ AddText

SpecText == InitText /\ [][NextText]_vars

(***************************************************************************)
(* C22: for every string s the texts of the tokens of tokenize(s), put     *)
(* together in order, are s; there is no token iff s is empty; every token *)
(* is a non-empty run of characters of one class (whitespace, word, other) *)
(* and two tokens next to each other are of different classes, so every    *)
(* run is maximal.                                                         *)
(***************************************************************************)
ClassOf(c) == IF IsSpace(c) THEN "whitespace" ELSE IF IsWord(c) THEN "word" ELSE "other"

OneClass(text) ==
    /\ Len(text) >= 1
    /\ \A k \in DOMAIN text : ClassOf(text[k]) = ClassOf(text[1])

Tokenized == Returned /\ input.fn = "tokenize"

C22_TokenizerRoundTrip ==
    Tokenized =>
        /\ TokensText(output[1]) = input.str
        /\ (Len(output[1]) = 0) <=> (Len(input.str) = 0)
        /\ \A k \in DOMAIN output[1] : OneClass(output[1][k].text)
        /\ \A k \in 1..(Len(output[1]) - 1) :
               ClassOf(output[1][k].text[1]) # ClassOf(output[1][k + 1].text[1])

\* A word of a letter and a digit, then punctuation with the NUL in it.
C22_Witness ==
    /\ Tokenized
    /\ input.str = <<"a", "0", NUL>>
    /\ Len(output[1]) = 2
    /\ output[1][1].text = <<"a", "0">>
    /\ output[1][2].isDelim

(***************************************************************************)
(* C23: for the token sequences of any two lines, the blocks returned by   *)
(* findMatchingTokenBlocks are in strictly ascending order of aStart, no   *)
(* two of them share a position of A or a position of B, every block has   *)
(* aEnd - aStart = bEnd - bStart = len with the same token text at each of *)
(* its positions in A and in B, and holds a word token of two characters   *)
(* or more.                                                                *)
(***************************************************************************)
Apart(s1, e1, s2, e2) == e1 <= s2 \/ e2 <= s1

WellMatched(A, B, block) ==
    /\ 0 <= block.aStart /\ block.aEnd <= Len(A)
    /\ 0 <= block.bStart /\ block.bEnd <= Len(B)
    /\ block.len >= 1
    /\ block.aEnd - block.aStart = block.len
    /\ block.bEnd - block.bStart = block.len
    /\ \A k \in 1..block.len : A[block.aStart + k].text = B[block.bStart + k].text
    /\ \E k \in 1..block.len :
           /\ IsWord(A[block.aStart + k].text[1])
           /\ Len(A[block.aStart + k].text) >= 2

BlocksOrdered(A, B, blocks) ==
    /\ \A i \in DOMAIN blocks : WellMatched(A, B, blocks[i])
    /\ \A i \in DOMAIN blocks, j \in DOMAIN blocks :
           i < j =>
               /\ blocks[i].aStart < blocks[j].aStart
               /\ Apart(blocks[i].aStart, blocks[i].aEnd, blocks[j].aStart, blocks[j].aEnd)
               /\ Apart(blocks[i].bStart, blocks[i].bEnd, blocks[j].bStart, blocks[j].bEnd)

BlocksReturned == Returned /\ input.fn = "findMatchingTokenBlocks"

C23_BlockMonotonicity ==
    BlocksReturned => BlocksOrdered(input.tokensA, input.tokensB, output[1])

\* "aa-bb" against "bb aa-": two blocks next to each other in A that are in
\* the other order in B.
C23_Witness ==
    /\ BlocksReturned
    /\ input.tokensA = tokenize(LineDash)
    /\ input.tokensB = tokenize(LineTurned)
    /\ Len(output[1]) = 2
    /\ output[1][1].aEnd = output[1][2].aStart
    /\ output[1][2].bEnd <= output[1][1].bStart

(***************************************************************************)
(* C26: when the block matcher admits a block, the pattern of              *)
(* extractTemplate(a, b) is: ".*" iff the first block does not start at    *)
(* position 0 of A, then the A-text of every block with ".*" between every *)
(* two consecutive blocks, then ".*" iff the last block does not end at    *)
(* the end of A; staticParts is the list of the block texts in order.  For *)
(* "User john logged in from 192.168.1.1" and "User admin logged in from   *)
(* 10.0.0.5" staticParts is ["User ", " logged in from "] and the pattern  *)
(* "User .* logged in from .*".                                            *)
(***************************************************************************)
BlockTexts(tokensA, blocks) ==
    [k \in DOMAIN blocks |->
        TokensText(SubSeq(tokensA, blocks[k].aStart + 1, blocks[k].aEnd))]

WildIf(cond) == IF cond THEN WILD ELSE <<>>

ComposedPattern(tokensA, blocks) ==
    WildIf(blocks[1].aStart # 0)
        \o Join(BlockTexts(tokensA, blocks), WILD)
        \o WildIf(blocks[Len(blocks)].aEnd # Len(tokensA))

ExtractComposed(a, tokensA, blocks, r) ==
    Len(blocks) > 0 =>
        /\ r.template = ComposedPattern(tokensA, blocks)
        /\ r.staticParts = BlockTexts(tokensA, blocks)

PatternUser ==
    <<"U", "s", "e", "r", " ", ".", "*", " ", "l", "o", "g",
      "g", "e", "d", " ", "i", "n", " ", "f", "r", "o", "m", " ", ".", "*">>

TemplateExtracted == Returned /\ input.fn = "extractTemplate"

C26_PatternComposition ==
    TemplateExtracted =>
        /\ ExtractComposed(input.a, tokenize(input.a),
                           findMatchingTokenBlocks(tokenize(input.a), tokenize(input.b)),
                           output[1])
        /\ (input.a = LineJohn /\ input.b = LineAdmin) =>
               /\ output[1].staticParts =
                      <<<<"U", "s", "e", "r", " ">>,
                        <<" ", "l", "o", "g", "g", "e", "d", " ", "i", "n", " ", "f",
                          "r", "o", "m", " ">>>>
               /\ output[1].template = PatternUser

\* "aa-bb" against "aa-zz bb": two blocks next to each other in A with "zz "
\* between them in B.
C26_Adjacent ==
    /\ TemplateExtracted
    /\ input.a = LineDash
    /\ input.b = LineGap
    /\ output[1].staticParts = <<<<"a", "a", "-">>, <<"b", "b">>>>
    /\ output[1].template = LineDash

(***************************************************************************)
(* C27: the similarity of extractTemplate(a, b) is twice the number of     *)
(* characters of the block texts over len(a) + len(b); for "User john      *)
(* logged in from 192.168.1.1" and "User admin logged in from 10.0.0.5" it *)
(* is 0.73 to two places (C27_SimilarityScenario) or 0.6 (C27_Similarity). *)
(***************************************************************************)
RECURSIVE Characters(_)
Characters(texts) ==
    IF Len(texts) = 0 THEN 0 ELSE Len(texts[1]) + Characters(Tail(texts))

FracEq(f, n, d) == f[1] * d = n * f[2]

\* f rounds to h hundredths.
Rounds(f, h) == (2 * h - 1) * f[2] <= 200 * f[1] /\ 200 * f[1] < (2 * h + 1) * f[2]

SimilarityOf(a, b, texts, r) ==
    (Len(a) + Len(b) > 0) => FracEq(r.similarity, 2 * Characters(texts), Len(a) + Len(b))

SimilarityFormula ==
    TemplateExtracted =>
        SimilarityOf(input.a, input.b,
                     BlockTexts(tokenize(input.a),
                                findMatchingTokenBlocks(tokenize(input.a),
                                                        tokenize(input.b))),
                     output[1])

ScenarioA == TemplateExtracted /\ input.a = LineJohn /\ input.b = LineAdmin

C27_SimilarityScenario ==
    /\ SimilarityFormula
    /\ ScenarioA => Rounds(output[1].similarity, 73)

C27_Similarity ==
    /\ SimilarityFormula
    /\ ScenarioA => FracEq(output[1].similarity, 6, 10)

\* 21 characters of 36 and 34 are static.
C27_Witness ==
    /\ ScenarioA
    /\ Characters(output[1].staticParts) = 21
    /\ Len(input.a) = 36
    /\ Len(input.b) = 34
    /\ Rounds(output[1].similarity, 60)

(***************************************************************************)
(* C24: the similarity extractTemplate returns for any two lines, and the  *)
(* similarity mergeWithTemplate returns for any line against the template  *)
(* of any cluster that a sequence of add calls has built, is at least 0    *)
(* and at most 1.                                                          *)
(***************************************************************************)
InUnit(f) == f[2] > 0 /\ 0 <= f[1] /\ f[1] <= f[2]

TemplateOf(cluster) ==
    [template |-> cluster.template, staticParts |-> cluster.staticParts]

C24_SimilarityBounds ==
    /\ TemplateExtracted => InUnit(output[1].similarity)
    /\ \A i \in DOMAIN clusterer.clusters, line \in MergeLines :
           InUnit(mergeWithTemplate(TemplateOf(clusterer.clusters[i]), line).similarity)

\* "aa.*.*" added twice: the template is collapsed to "aa.*", four
\* characters, the static part keeps the six of the line.
C24_Collapsed ==
    /\ Len(fed) = 2
    /\ fed[1].line = LineStars
    /\ fed[2].line = LineStars
    /\ Len(clusterer.clusters) = 1
    /\ clusterer.clusters[1].template = <<"a", "a", ".", "*">>
    /\ clusterer.clusters[1].staticParts = <<LineStars>>
    /\ mergeWithTemplate(TemplateOf(clusterer.clusters[1]), LineStars).similarity = <<12, 10>>

(***************************************************************************)
(* C25: no pattern holds two ".*" next to each other: not the pattern that *)
(* extractTemplate returns, not the template of a cluster that add has     *)
(* opened, not the template mergeWithTemplate has given a cluster.         *)
(***************************************************************************)
TwoWild(s) == \E i \in 1..Len(s) : IsWildAt(s, i) /\ IsWildAt(s, i + 2)

C25_CanonicalForm ==
    /\ TemplateExtracted => ~TwoWild(output[1].template)
    /\ \A i \in DOMAIN clusterer.clusters : ~TwoWild(clusterer.clusters[i].template)

\* "zz.*aa" against "qq.*aa": the block ".*aa" starts at the second token
\* of A, and the ".*" pushed before it stands next to the one of the line.
C25_WildBeforeStar ==
    /\ TemplateExtracted
    /\ input.a = LineStarZ
    /\ input.b = LineStarQ
    /\ output[1].staticParts = <<<<".", "*", "a", "a">>>>
    /\ output[1].template = <<".", "*", ".", "*", "a", "a">>

(***************************************************************************)
(* C29: an add call that returns the id of a cluster that was resident     *)
(* leaves the number of clusters and every other cluster as they were and  *)
(* raises the count of that cluster by exactly 1; an add call that opens a *)
(* cluster removes at most one resident cluster and leaves every other one *)
(* as it was; the cluster of the returned id is resident after the call.   *)
(* similarity(cluster, line) is a value and assigns nothing.               *)
(***************************************************************************)
ResidentIn(self, id) == \E i \in DOMAIN self.clusters : self.clusters[i].id = id

Removed(before, after) ==
    {i \in DOMAIN before.clusters : ~ResidentIn(after, before.clusters[i].id)}

AdmittedFrame(before, after, id) ==
    /\ Len(after.clusters) = Len(before.clusters)
    /\ \A i \in DOMAIN before.clusters :
           IF before.clusters[i].id = id
           THEN /\ after.clusters[i].id = id
                /\ after.clusters[i].count = before.clusters[i].count + 1
           ELSE after.clusters[i] = before.clusters[i]

OpenedFrame(before, after, id) ==
    /\ Cardinality(Removed(before, after)) <= 1
    /\ Len(after.clusters) = Len(before.clusters) + 1 - Cardinality(Removed(before, after))
    /\ \A j \in DOMAIN after.clusters :
           IF after.clusters[j].id = id
           THEN after.clusters[j].count = 1
           ELSE \E i \in DOMAIN before.clusters : before.clusters[i] = after.clusters[j]

AddFrame(before, after, id) ==
    /\ ResidentIn(after, id)
    /\ IF ResidentIn(before, id) THEN AdmittedFrame(before, after, id)
       ELSE OpenedFrame(before, after, id)

C29_AddFrame ==
    [][Len(fed') = Len(fed) + 1 => AddFrame(clusterer, clusterer', fed'[Len(fed')].id)]_vars

\* An add call has opened a cluster at capacity: one cluster is gone, one
\* that was there before is still there, and a later call was admitted.
C29_Witness ==
    /\ Len(clusterer.clusters) = 2
    /\ clusterer.maxClusters = 2
    /\ clusterer.nextId = 3
    /\ \E i \in DOMAIN clusterer.clusters : clusterer.clusters[i].count >= 2
    /\ fed[Len(fed)].id = 2

(***************************************************************************)
(* C30: the lines fed hold no NUL.  In every state every static part of    *)
(* every cluster holds no NUL and is a contiguous substring of every line  *)
(* the cluster has taken, and it is non-empty (C30_StaticParts) or, as the *)
(* code has it, non-empty unless the cluster was opened by the empty line  *)
(* (C30_StaticPartsOfLines); every static part a merge gives a cluster     *)
(* lies within one of the static parts the cluster had before.             *)
(***************************************************************************)
Substring(part, text) ==
    \E i \in 0..(Len(text) - Len(part)) : SubSeq(text, i + 1, i + Len(part)) = part

PartOfLines(cluster, part) ==
    /\ \A k \in DOMAIN part : part[k] # NUL
    /\ \A k \in DOMAIN fed : fed[k].id = cluster.id => Substring(part, fed[k].line)

StaticParts(orEmptyLine) ==
    \A i \in DOMAIN clusterer.clusters :
        \A p \in DOMAIN clusterer.clusters[i].staticParts :
            /\ PartOfLines(clusterer.clusters[i], clusterer.clusters[i].staticParts[p])
            /\ \/ Len(clusterer.clusters[i].staticParts[p]) >= 1
               \/ orEmptyLine /\ clusterer.clusters[i].examples[1] = LineEmpty

WithinOnePart ==
    \A i \in DOMAIN clusterer.clusters, j \in DOMAIN clusterer'.clusters :
        (/\ clusterer.clusters[i].id = clusterer'.clusters[j].id
         /\ clusterer.clusters[i].count < clusterer'.clusters[j].count)
            => \A q \in DOMAIN clusterer'.clusters[j].staticParts :
                   \E p \in DOMAIN clusterer.clusters[i].staticParts :
                       Substring(clusterer'.clusters[j].staticParts[q],
                                 clusterer.clusters[i].staticParts[p])

C30_StaticParts == []StaticParts(FALSE) /\ [][WithinOnePart]_vars

C30_StaticPartsOfLines == []StaticParts(TRUE) /\ [][WithinOnePart]_vars

\* "aa-qq-bb", "aa-zz-bb", "aa--bb": the static parts "aa-" and "-bb" of
\* the first two lines meet in the third, and the merge keeps "aa" and "bb".
C30_Witness ==
    /\ Len(fed) = 3
    /\ fed[1].line = LineDashQ
    /\ fed[2].line = LineDashZ
    /\ fed[3].line = LineDashes
    /\ Len(clusterer.clusters) = 1
    /\ clusterer.clusters[1].count = 3
    /\ clusterer.clusters[1].staticParts = <<<<"a", "a">>, <<"b", "b">>>>

(***************************************************************************)
(* C28: no step of a tool invocation changes or removes an entry that is   *)
(* in the session cache: its clusters (template, count, examples), its     *)
(* total line count and its timestamps in their order stay as they are; a  *)
(* step can at most add an entry under a key that had none.                *)
(***************************************************************************)
Content(entry) ==
    <<[i \in DOMAIN entry.clusterer.clusters |->
          <<entry.clusterer.clusters[i].template, entry.clusterer.clusters[i].count,
            entry.clusterer.clusters[i].examples>>],
      entry.totalLines, entry.timestamps>>

EntriesKept ==
    \A k \in DOMAIN fileCache :
        /\ k \in DOMAIN fileCache'
        /\ Content(fileCache'[k]) = Content(fileCache[k])

C28_CacheEntriesFrozen == [][EntriesKept]_vars

\* log_overview has answered from an entry whose timestamps are no longer
\* in the order of the lines of the file.
C28_SortedInPlace ==
    /\ reply.tool = "log_overview"
    /\ reply.error = ""
    /\ \E k \in DOMAIN fileCache :
           /\ Len(fileCache[k].timestamps) = 2
           /\ fileCache[k].timestamps[1] < fileCache[k].timestamps[2]
    /\ extractTimestamp(disk[AppLog][1], "epoch_s") > extractTimestamp(disk[AppLog][2], "epoch_s")

====
